---- MODULE Spec2Model ----
(***************************************************************************)
(* A model of nanobit: the WriteBuffer / ReadBuffer byte layer             *)
(* (src/src/buffer.rs), the Serializer (src/src/ser.rs) and the            *)
(* Deserializer (src/src/de.rs).                                           *)
(*                                                                         *)
(* Bytes are the integers 0..255.  A u64 / usize is a sequence of ten      *)
(* base-128 digits, so that 2^64-1, the ten-byte varint and the wrap of    *)
(* `position + len` are computed at their real width.                      *)
(***************************************************************************)
EXTENDS Integers, Sequences, FiniteSets, TLC

VARIABLES
    overflow_checks, \* the build: TRUE = overflow checks on (debug), FALSE = wrapping (release)
    wbuf,            \* WriteBuffer.data
    wlog,            \* what was written: <<[v, start, end]>> (history)
    data,            \* ReadBuffer.data
    position,        \* ReadBuffer.position
    op,              \* the last ReadBuffer call (history)
    arg,             \* its count argument, if it has one (history)
    prev,            \* ReadBuffer.position before the last call (history)
    last             \* what the last call returned

bufvars == <<overflow_checks, wbuf, wlog, data, position, op, arg, prev, last>>

VARIABLES
    ty,        \* the shape of the value: what its type tells the format
    val,       \* the value handed to to_bytes
    order,     \* the iteration order of the process's HashMaps
    pc,        \* "start", "encoded", "refused", "truncated", "extended", "forged",
               \* "constructed", "done", "dynamic", "detected"
    src,       \* where the decoder's input came from (history)
    body,      \* the Serializer's WriteBuffer when to_bytes returned
    out,       \* what to_bytes returned
    input,     \* the bytes handed to the decoder
    reader,    \* what Deserializer::new returned
    consumed,  \* the reader's position when from_bytes returned
    decoded    \* what from_bytes returned

codecvars == <<ty, val, order, pc, src, body, out, input, reader, consumed, decoded>>

VARIABLES
    access     \* the SeqDeserializer / MapDeserializer a visitor holds, and what it gave out (history)

VARIABLES
    detected     \* what is_serialized returned

VARIABLES
    calls     \* the to_bytes / from_bytes calls in progress, one per thread

VARIABLES
    heap     \* the WriteBuffers the Serializers of the calls have allocated

VARIABLES
    comp     \* the compress / decompress call: build features, input, format, level, results

vars == <<bufvars, codecvars, access, detected, calls, heap, comp>>

----------------------------------------------------------------------------
(* Results: Result<T, Error> of src/src/error.rs, plus a panic.            *)

Ok(v) == [tag |-> "Ok", v |-> v]
Err(e) == [tag |-> "Err", e |-> e]
UnsupportedVersion(v) == [tag |-> "Err", e |-> "UnsupportedVersion", ver |-> v]
Panic == [tag |-> "Panic"]
IsOk(r) == r.tag = "Ok"
IsErr(r, e) == r.tag = "Err" /\ r.e = e

---------------------------------------------------------------------------------------------------------------------------------------------------
(* u64 / usize words: ten base-128 digits, least significant first; the    *)
(* tenth digit holds the one bit that is left (9 * 7 + 1 = 64).            *)

VarintGroup == 7
VarintMaxShift == 64
GroupBase == 128
Groups == (VarintMaxShift + VarintGroup - 1) \div VarintGroup   \* 10
NatGroups == 4   \* the naturals of the model are below GroupBase^NatGroups

Idx64 == 1..Groups

\* what a digit can hold
Base(k) == IF k = Groups THEN 2 ELSE GroupBase

\* a natural as a word
Bits(n) == [k \in Idx64 |-> IF k <= NatGroups THEN (n \div (GroupBase ^ (k - 1))) % GroupBase ELSE 0]

Zero64 == [k \in Idx64 |-> 0]
MaxU64 == [k \in Idx64 |-> Base(k) - 1]
\* 2^63
Top64 == [k \in Idx64 |-> IF k = Groups THEN 1 ELSE 0]
\* 2^31
Pow31 == [k \in Idx64 |-> IF k = 5 THEN 8 ELSE 0]

IsZero64(b) == \A k \in Idx64 : b[k] = 0

RECURSIVE NatUpTo(_, _)
NatUpTo(b, k) == IF k = 0 THEN 0 ELSE (b[k] * (GroupBase ^ (k - 1))) + NatUpTo(b, k - 1)

\* the natural a small word stands for
Nat64(b) == NatUpTo(b, NatGroups)

\* a > b, unsigned
Gt64(a, b) == \E k \in Idx64 : a[k] > b[k] /\ \A j \in (k + 1)..Groups : a[j] = b[j]

RECURSIVE Carry(_, _, _)
Carry(a, b, k) == IF k = 0 THEN 0 ELSE (a[k] + b[k] + Carry(a, b, k - 1)) \div Base(k)

\* a + b: the sum modulo 2^64 and the carry out of bit 63
Add64(a, b) ==
    [sum |-> [k \in Idx64 |-> (a[k] + b[k] + Carry(a, b, k - 1)) % Base(k)],
     carry |-> Carry(a, b, Groups)]

\* b - 1 for b > 0
Dec64(b) ==
    LET low == CHOOSE k \in Idx64 : b[k] > 0 /\ \A j \in 1..(k - 1) : b[j] = 0
    IN [k \in Idx64 |-> IF k < low THEN Base(k) - 1 ELSE IF k = low THEN b[k] - 1 ELSE b[k]]

\* 2^64 - n, for a natural n > 0
Neg64(n) == Add64([k \in Idx64 |-> Base(k) - 1 - Bits(n)[k]], Bits(1)).sum

\* `value >>= 7`
Shr7(b) == [k \in Idx64 |-> IF k < Groups THEN b[k + 1] ELSE 0]

\* the bitwise or of two naturals below 2^n
RECURSIVE BitOr(_, _, _)
BitOr(x, y, n) ==
    IF n = 0 THEN 0
    ELSE (IF x % 2 = 1 \/ y % 2 = 1 THEN 1 ELSE 0) + (2 * BitOr(x \div 2, y \div 2, n - 1))

\* `result |= (g as u64) << shift` for a 7-bit g and a shift that is a multiple
\* of 7 below 64: the bits shifted past bit 63 are dropped
OrShl(result, g, shift) ==
    LET k == (shift \div VarintGroup) + 1
    IN  [result EXCEPT ![k] = BitOr(@, g % Base(k), VarintGroup)]

\* `value as u8`: the low 8 bits
AsU8(b) == b[1] + (GroupBase * (b[2] % 2))
\* `value >= 0x80`
Ge0x80(b) == \E k \in 2..Groups : b[k] > 0

-----
(* WriteBuffer (src/src/buffer.rs).  An operation maps data to data.       *)

write_u8(d, value) == Append(d, value)

write_bytes(d, bytes) == d \o bytes

\* the loop test off by one: `value > 0x80`
RECURSIVE write_varint_gt(_, _)
write_varint_gt(d, value) ==
    IF Gt64(value, Bits(128))
    THEN write_varint_gt(write_u8(d, BitOr(AsU8(value), 128, 8)), Shr7(value))
    ELSE write_u8(d, AsU8(value))

RECURSIVE write_varint(_, _)
write_varint(d, value) ==
    IF Ge0x80(value)
    THEN write_varint(write_u8(d, BitOr(AsU8(value), 128, 8)), Shr7(value))
    ELSE write_u8(d, AsU8(value))

----------------------------------------------------------------------------
(* ReadBuffer (src/src/buffer.rs).  An operation maps (data, position) to  *)
(* [pos |-> the new position, res |-> the result].                         *)

\* `self.data.len() - self.position`: a usize, so it must not fall below 0
remaining(d, pos) == Len(d) - pos

read_u8(d, pos) ==
    IF pos >= Len(d)
    THEN [pos |-> pos, res |-> Err("UnexpectedEof")]
    ELSE [pos |-> pos + 1, res |-> Ok(d[pos + 1])]

\* the byte is consumed
peek_u8_consuming(d, pos) ==
    IF pos >= Len(d) THEN [pos |-> pos, res |-> Err("UnexpectedEof")]
    ELSE [pos |-> pos + 1, res |-> Ok(d[pos + 1])]

peek_u8(d, pos) ==
    IF pos >= Len(d)
    THEN [pos |-> pos, res |-> Err("UnexpectedEof")]
    ELSE [pos |-> pos, res |-> Ok(d[pos + 1])]

\* the cursor is moved to the end of the data before the bytes are found missing
read_bytes_advancing(d, pos, len) ==
    LET s == Add64(Bits(pos), len)
    IN  IF s.carry = 1 /\ overflow_checks
        THEN [pos |-> pos, res |-> Panic]
        ELSE IF Gt64(s.sum, Bits(Len(d)))
        THEN [pos |-> Len(d), res |-> Err("UnexpectedEof")]
        ELSE IF pos > Nat64(s.sum)
        THEN [pos |-> pos, res |-> Panic]
        ELSE [pos |-> Nat64(s.sum), res |-> Ok(SubSeq(d, pos + 1, Nat64(s.sum)))]

\* `self.position + len` on usize: a panic with overflow checks, a wrap without
read_bytes(d, pos, len) ==
    LET s == Add64(Bits(pos), len)
    IN  IF s.carry = 1 /\ overflow_checks
        THEN [pos |-> pos, res |-> Panic]
        ELSE IF Gt64(s.sum, Bits(Len(d)))
        THEN [pos |-> pos, res |-> Err("UnexpectedEof")]
        ELSE IF pos > Nat64(s.sum)
        THEN [pos |-> pos, res |-> Panic]   \* slice index starts after its end
        ELSE [pos |-> Nat64(s.sum), res |-> Ok(SubSeq(d, pos + 1, Nat64(s.sum)))]

\* the bounds check forgets the cursor: `count > self.data.len()`
skip_from_start(d, pos, count) ==
    IF Gt64(count, Bits(Len(d)))
    THEN [pos |-> pos, res |-> Err("UnexpectedEof")]
    ELSE [pos |-> pos + Nat64(count), res |-> Ok("unit")]

skip(d, pos, count) ==
    LET s == Add64(Bits(pos), count)
    IN  IF s.carry = 1 /\ overflow_checks
        THEN [pos |-> pos, res |-> Panic]
        ELSE IF Gt64(s.sum, Bits(Len(d)))
        THEN [pos |-> pos, res |-> Err("UnexpectedEof")]
        ELSE [pos |-> Nat64(s.sum), res |-> Ok("unit")]

RECURSIVE varint_loop(_, _, _, _)
varint_loop(d, pos, result, shift) ==
    IF shift >= VarintMaxShift
    THEN [pos |-> pos, res |-> Err("InvalidFormat")]
    ELSE LET r == read_u8(d, pos)
         IN  IF ~IsOk(r.res)
             THEN r
             ELSE LET byte == r.res.v
                      result2 == OrShl(result, byte % 128, shift)
                  IN  IF byte < 128
                      THEN [pos |-> r.pos, res |-> Ok(result2)]
                      ELSE varint_loop(d, r.pos, result2, shift + VarintGroup)

\* the length guard off by one group: `shift > 70`
RECURSIVE varint_loop_late(_, _, _, _)
varint_loop_late(d, pos, result, shift) ==
    IF shift > Groups * VarintGroup
    THEN [pos |-> pos, res |-> Err("InvalidFormat")]
    ELSE LET r == read_u8(d, pos)
         IN  IF ~IsOk(r.res)
             THEN r
             ELSE LET byte == r.res.v
                      result2 == IF shift < VarintMaxShift
                                 THEN OrShl(result, byte % 128, shift) ELSE result
                  IN  IF byte < 128
                      THEN [pos |-> r.pos, res |-> Ok(result2)]
                      ELSE varint_loop_late(d, r.pos, result2, shift + VarintGroup)

read_varint_late(d, pos) == varint_loop_late(d, pos, Zero64, 0)

read_varint(d, pos) == varint_loop(d, pos, Zero64, 0)

read_byte_slice(d, pos) ==
    LET r == read_varint(d, pos)
    IN  IF ~IsOk(r.res) THEN r ELSE read_bytes(d, r.pos, r.res.v)

\* u16::from_le_bytes: a u16 is a natural
U16FromLe(bytes) == bytes[1] + (256 * bytes[2])

\* u32::from_le_bytes / u64::from_le_bytes: a u32 / u64 is its sequence of bits
BitsFromLe(bytes) ==
    [i \in 1..(8 * Len(bytes)) |-> (bytes[((i - 1) \div 8) + 1] \div (2 ^ ((i - 1) % 8))) % 2]

read_fixed(d, pos, n) == read_bytes(d, pos, Bits(n))

read_u16(d, pos) ==
    LET r == read_fixed(d, pos, 2)
    IN  IF IsOk(r.res) THEN [pos |-> r.pos, res |-> Ok(U16FromLe(r.res.v))] ELSE r

read_u32(d, pos) ==
    LET r == read_fixed(d, pos, 4)
    IN  IF IsOk(r.res) THEN [pos |-> r.pos, res |-> Ok(BitsFromLe(r.res.v))] ELSE r

read_u64(d, pos) ==
    LET r == read_fixed(d, pos, 8)
    IN  IF IsOk(r.res) THEN [pos |-> r.pos, res |-> Ok(BitsFromLe(r.res.v))] ELSE r

----------------------------------------------------------------------------
(* UTF-8 (core::str): a str is the sequence of its chars' code points.     *)

IsCont(b) == b >= 128 /\ b < 192

\* char::from_u32 on a natural: a Unicode scalar value
IsScalar(cp) == cp >= 0 /\ cp <= 1114111 /\ ~(cp >= 55296 /\ cp <= 57343)

\* char::encode_utf8
Utf8Char(cp) ==
    IF cp < 128 THEN <<cp>>
    ELSE IF cp < 2048 THEN <<192 + (cp \div 64), 128 + (cp % 64)>>
    ELSE IF cp < 65536 THEN <<224 + (cp \div 4096), 128 + ((cp \div 64) % 64), 128 + (cp % 64)>>
    ELSE <<240 + (cp \div 262144), 128 + ((cp \div 4096) % 64), 128 + ((cp \div 64) % 64),
           128 + (cp % 64)>>

\* str::as_bytes
RECURSIVE as_bytes(_)
as_bytes(s) == IF s = <<>> THEN <<>> ELSE Utf8Char(Head(s)) \o as_bytes(Tail(s))

\* the first char of a byte sequence: [n |-> its width, cp |-> its code point], n = 0 if invalid
Utf8First(b) ==
    LET bad == [n |-> 0, cp |-> 0]
        c(i) == b[i] - 128
    IN  IF b[1] < 128 THEN [n |-> 1, cp |-> b[1]]
        ELSE IF b[1] >= 194 /\ b[1] <= 223
        THEN IF Len(b) >= 2 /\ IsCont(b[2])
             THEN [n |-> 2, cp |-> ((b[1] - 192) * 64) + c(2)] ELSE bad
        ELSE IF b[1] >= 224 /\ b[1] <= 239
        THEN IF Len(b) >= 3 /\ IsCont(b[2]) /\ IsCont(b[3])
             THEN LET cp == ((b[1] - 224) * 4096) + (c(2) * 64) + c(3)
                  IN  IF cp >= 2048 /\ IsScalar(cp) THEN [n |-> 3, cp |-> cp] ELSE bad
             ELSE bad
        ELSE IF b[1] >= 240 /\ b[1] <= 244
        THEN IF Len(b) >= 4 /\ IsCont(b[2]) /\ IsCont(b[3]) /\ IsCont(b[4])
             THEN LET cp == ((b[1] - 240) * 262144) + (c(2) * 4096) + (c(3) * 64) + c(4)
                  IN  IF cp >= 65536 /\ IsScalar(cp) THEN [n |-> 4, cp |-> cp] ELSE bad
             ELSE bad
        ELSE bad

\* core::str::from_utf8
RECURSIVE from_utf8(_)
from_utf8(b) ==
    IF b = <<>> THEN Ok(<<>>)
    ELSE LET f == Utf8First(b)
         IN  IF f.n = 0 THEN Err("Utf8Error")
             ELSE LET rest == from_utf8(SubSeq(b, f.n + 1, Len(b)))
                  IN  IF IsOk(rest) THEN Ok(<<f.cp>> \o rest.v) ELSE rest

read_str(d, pos) ==
    LET r == read_byte_slice(d, pos)
    IN  IF ~IsOk(r.res) THEN r
        ELSE LET s == from_utf8(r.res.v)
             IN  [pos |-> r.pos, res |-> IF IsOk(s) THEN s ELSE Err("InvalidFormat")]

----------------------------------------------------------------------------
(* Values and their shapes.  A shape is what a type's Serialize and        *)
(* Deserialize impls (serde's, or derived) tell the format:                *)
(*   <<"bool">> <<"u8">> <<"i8">> <<"u16">> <<"i16">> <<"u32">> <<"i32">>  *)
(*   <<"u64">> <<"i64">> <<"char">> <<"str">> <<"bytes">> <<"unit">>       *)
(*   <<"option", T>> <<"seq", T>> <<"map", T>> (keys are u8)               *)
(*   <<"tuple", <<T1, ..>>>> <<"struct", <<T1, ..>>>> <<"newtype", T>>     *)
(*   <<"enum", <<V0, V1, ..>>>> with the variants <<"unit">>,              *)
(*   <<"newtype", T>>, <<"tuple", <<T1, ..>>>>, <<"struct", <<T1, ..>>>>;  *)
(*   <<"iter", T>> and <<"itermap", T>> a sequence and a map that are      *)
(*   handed to the Serializer by an iterator whose length is not known     *)
(*   (serialize_seq(None), serialize_map(None)), decoded as Vec / HashMap; *)
(*   <<"any">> a type that asks for deserialize_any (a dynamic value) and  *)
(*   <<"ignored_any">> serde's IgnoredAny: they are decoded only.          *)
(* Values: a bool is a BOOLEAN; u8, i8, u16, i16 and char are integers;    *)
(* u32, i32, u64 and i64 are their 32 or 64 bits, least significant first  *)
(* (two's complement); a str is its code points; bytes are bytes; unit is  *)
(* <<>>; an option is <<>> or <<v>>; a seq, tuple or struct is the         *)
(* sequence of its parts; a map is a function from its keys; an enum value *)
(* is <<variant index, payload>>.                                          *)

\* to_le_bytes of a u32 / u64
LeFromBits(b) ==
    [j \in 1..(Len(b) \div 8) |->
        LET bit(i) == b[(8 * (j - 1)) + i]
        IN  bit(1) + (2 * bit(2)) + (4 * bit(3)) + (8 * bit(4)) + (16 * bit(5))
              + (32 * bit(6)) + (64 * bit(7)) + (128 * bit(8))]

\* to_be_bytes instead
LeFromU16_be(v) == <<v \div 256, v % 256>>

\* to_le_bytes of a u16
LeFromU16(v) == <<v % 256, v \div 256>>

\* the bits of a natural below 2^30, as a u32 or u64
BitsOf(n, w) == [i \in 1..w |-> IF i <= 30 THEN (n \div (2 ^ (i - 1))) % 2 ELSE 0]

\* the two's complement bits of -n
NegBitsOf(n, w) ==
    LET m == BitsOf(n - 1, w) IN [i \in 1..w |-> 1 - m[i]]

\* only the upper limit is checked: a surrogate passes
CharFromU32_no_surrogates(b) ==
    IF \E i \in 22..32 : b[i] = 1 THEN -1
    ELSE LET RECURSIVE nat(_)
             nat(i) == IF i = 0 THEN 0 ELSE (b[i] * (2 ^ (i - 1))) + nat(i - 1)
         IN  IF nat(21) <= 1114111 THEN nat(21) ELSE -1

\* char::from_u32 on the bits of a u32: the code point, or -1
CharFromU32(b) ==
    IF \E i \in 22..32 : b[i] = 1 THEN -1
    ELSE LET RECURSIVE nat(_)
             nat(i) == IF i = 0 THEN 0 ELSE (b[i] * (2 ^ (i - 1))) + nat(i - 1)
         IN  IF IsScalar(nat(21)) THEN nat(21) ELSE -1

MAGIC == <<78, 65, 78, 79>>
VERSION == 1

\* what an encode step returns: the buffer, and whether the step succeeded
SerOk(d) == [ok |-> TRUE, d |-> d]
SerErr(d) == [ok |-> FALSE, d |-> d]

\* HashMap's iteration order: the keys of m in the order of `ord`
KeysInOrder(m, ord) == SelectSeq(ord, LAMBDA k : k \in DOMAIN m)

RECURSIVE Serialize(_, _, _, _)
RECURSIVE SerializeAll(_, _, _, _, _)
RECURSIVE SerializeSame(_, _, _, _, _)
RECURSIVE SerializeEntries(_, _, _, _, _, _)

\* the elements vs[i..] with the shapes ts[i..], one after the other
SerializeAll(ts, vs, d, ord, i) ==
    IF i > Len(ts) THEN SerOk(d)
    ELSE LET r == Serialize(ts[i], vs[i], d, ord)
         IN  IF r.ok THEN SerializeAll(ts, vs, r.d, ord, i + 1) ELSE r

\* the elements vs[i..], all of shape t
SerializeSame(t, vs, d, ord, i) ==
    IF i > Len(vs) THEN SerOk(d)
    ELSE LET r == Serialize(t, vs[i], d, ord)
         IN  IF r.ok THEN SerializeSame(t, vs, r.d, ord, i + 1) ELSE r

\* the entries of m for the keys ks[i..]: serialize_key, then serialize_value
SerializeEntries(t, m, ks, d, ord, i) ==
    IF i > Len(ks) THEN SerOk(d)
    ELSE LET r == Serialize(t, m[ks[i]], write_u8(d, ks[i]), ord)
         IN  IF r.ok THEN SerializeEntries(t, m, ks, r.d, ord, i + 1) ELSE r

\* a length that is not known is no error: the elements follow without a count
serialize_seq_streaming(d, len) ==
    IF len = <<>> THEN SerOk(d) ELSE SerOk(write_varint(d, len[1]))

\* serialize_seq(len: Option<usize>): len is <<>> for None, <<K>> for Some(K)
serialize_seq(d, len) ==
    IF len = <<>> THEN SerErr(d) ELSE SerOk(write_varint(d, len[1]))

\* serialize_map(len: Option<usize>)
serialize_map(d, len) ==
    IF len = <<>> THEN SerErr(d) ELSE SerOk(write_varint(d, len[1]))

\* the count of a tuple or struct variant is written in front of its index
serialize_variant_count_first(shape, idx, payload, d, ord) ==
    CASE shape[1] = "unit" -> SerOk(write_varint(d, Bits(idx)))
      [] shape[1] = "newtype" -> Serialize(shape[2], payload, write_varint(d, Bits(idx)), ord)
      [] shape[1] \in {"tuple", "struct"} ->
            SerializeAll(shape[2], payload,
                         write_varint(write_varint(d, Bits(Len(shape[2]))), Bits(idx)), ord, 1)

\* serialize_unit_variant, serialize_newtype_variant, serialize_tuple_variant
\* and serialize_struct_variant, and the fields behind them
serialize_variant(shape, idx, payload, d, ord) ==
    LET d1 == write_varint(d, Bits(idx))
    IN  CASE shape[1] = "unit" -> SerOk(d1)
          [] shape[1] = "newtype" -> Serialize(shape[2], payload, d1, ord)
          [] shape[1] \in {"tuple", "struct"} ->
                SerializeAll(shape[2], payload, write_varint(d1, Bits(Len(shape[2]))), ord, 1)

Serialize(t, v, d, ord) ==
    CASE t[1] = "bool" -> SerOk(write_u8(d, IF v THEN 1 ELSE 0))
      [] t[1] = "u8" -> SerOk(write_u8(d, v))
      [] t[1] = "i8" -> SerOk(write_u8(d, v % 256))
      [] t[1] = "u16" -> SerOk(write_bytes(d, LeFromU16(v)))
      [] t[1] = "i16" -> SerOk(write_bytes(d, LeFromU16(v % 65536)))
      [] t[1] \in {"u32", "i32", "u64", "i64"} -> SerOk(write_bytes(d, LeFromBits(v)))
      [] t[1] = "char" -> SerOk(write_bytes(d, LeFromBits(BitsOf(v, 32))))
      [] t[1] = "str" -> SerOk(write_bytes(write_varint(d, Bits(Len(as_bytes(v)))), as_bytes(v)))
      [] t[1] = "bytes" -> SerOk(write_bytes(write_varint(d, Bits(Len(v))), v))
      [] t[1] = "unit" -> SerOk(d)
      [] t[1] = "option" ->
            IF v = <<>> THEN SerOk(write_u8(d, 0))
            ELSE Serialize(t[2], v[1], write_u8(d, 1), ord)
      [] t[1] = "newtype" -> Serialize(t[2], v, d, ord)
      [] t[1] \in {"seq", "iter"} ->
            LET s == serialize_seq(d, IF t[1] = "seq" THEN <<Bits(Len(v))>> ELSE <<>>)
            IN  IF s.ok THEN SerializeSame(t[2], v, s.d, ord, 1) ELSE s
      [] t[1] \in {"tuple", "struct"} ->
            SerializeAll(t[2], v, write_varint(d, Bits(Len(t[2]))), ord, 1)
      [] t[1] \in {"map", "itermap"} ->
            LET s == serialize_map(d, IF t[1] = "map" THEN <<Bits(Cardinality(DOMAIN v))>> ELSE <<>>)
            IN  IF s.ok THEN SerializeEntries(t[2], v, KeysInOrder(v, ord), s.d, ord, 1) ELSE s
      [] t[1] = "enum" -> serialize_variant(t[2][v[1] + 1], v[1], v[2], d, ord)

\* the version byte is forgotten
into_bytes_no_version(buffer) == MAGIC \o buffer

\* Serializer::into_bytes
into_bytes(buffer) == MAGIC \o <<VERSION>> \o buffer

to_bytes(t, v, ord) ==
    LET r == Serialize(t, v, <<>>, ord)
    IN  IF r.ok THEN Ok(into_bytes(r.d)) ELSE Err("Serde")

----------------------------------------------------------------------------
(* Deserializer (src/src/de.rs).  A decode step maps (data, position) to   *)
(* [pos |-> the new position, res |-> the result].                         *)

\* `?` and a conversion of the value read
Then(r, f(_)) == IF IsOk(r.res) THEN [pos |-> r.pos, res |-> Ok(f(r.res.v))] ELSE r

\* the byte is not reinterpreted as signed
AsI8_unsigned(b) == b

\* `as i8`, `as i16`
AsI8(b) == IF b >= 128 THEN b - 256 ELSE b
AsI16(w) == IF w >= 32768 THEN w - 65536 ELSE w

RECURSIVE Deserialize(_, _, _)
RECURSIVE VisitVec(_, _, _, _)
RECURSIVE VisitFields(_, _, _, _, _)
RECURSIVE VisitMap(_, _, _, _)

\* SeqDeserializer::new
SeqDeserializer(pos, len) == [pos |-> pos, remaining |-> len]

\* the count is not counted down
next_element_seed_no_countdown(t, d, sa) ==
    IF IsZero64(sa.remaining)
    THEN [sa |-> sa, res |-> Ok(<<>>)]
    ELSE LET r == Deserialize(t, d, sa.pos)
         IN  [sa |-> [pos |-> r.pos, remaining |-> sa.remaining],
              res |-> IF IsOk(r.res) THEN Ok(<<r.res.v>>) ELSE r.res]

\* SeqAccess::next_element_seed: Ok(<<>>) is None, Ok(<<v>>) is Some(v)
next_element_seed(t, d, sa) ==
    IF IsZero64(sa.remaining)
    THEN [sa |-> sa, res |-> Ok(<<>>)]
    ELSE LET r == Deserialize(t, d, sa.pos)
         IN  [sa |-> [pos |-> r.pos, remaining |-> Dec64(sa.remaining)],
              res |-> IF IsOk(r.res) THEN Ok(<<r.res.v>>) ELSE r.res]

\* MapAccess::next_key_seed, for a u8 key
next_key_seed(d, ma) == next_element_seed(<<"u8">>, d, ma)

\* MapAccess::next_value_seed
next_value_seed(t, d, ma) ==
    LET r == Deserialize(t, d, ma.pos)
    IN  [sa |-> [pos |-> r.pos, remaining |-> ma.remaining], res |-> r.res]

\* serde's Vec<T> visitor: pulls elements until None
VisitVec(t, d, sa, acc) ==
    LET e == next_element_seed(t, d, sa)
    IN  IF ~IsOk(e.res) THEN [pos |-> e.sa.pos, res |-> e.res]
        ELSE IF e.res.v = <<>> THEN [pos |-> e.sa.pos, res |-> Ok(acc)]
        ELSE VisitVec(t, d, e.sa, Append(acc, e.res.v[1]))

RECURSIVE VisitFields_best_effort(_, _, _, _, _)
\* a field that fails is left out and the fields behind it are still decoded
VisitFields_best_effort(ts, d, sa, i, acc) ==
    IF i > Len(ts) THEN [pos |-> sa.pos, res |-> Ok(acc)]
    ELSE LET e == next_element_seed(ts[i], d, sa)
         IN  IF ~IsOk(e.res) \/ e.res.v = <<>>
             THEN VisitFields_best_effort(ts, d, e.sa, i + 1, acc)
             ELSE VisitFields_best_effort(ts, d, e.sa, i + 1, Append(acc, e.res.v[1]))

\* the visitor of a tuple or of a derived struct: pulls one element per field
VisitFields(ts, d, sa, i, acc) ==
    IF i > Len(ts) THEN [pos |-> sa.pos, res |-> Ok(acc)]
    ELSE LET e == next_element_seed(ts[i], d, sa)
         IN  IF ~IsOk(e.res) THEN [pos |-> e.sa.pos, res |-> e.res]
             ELSE IF e.res.v = <<>> THEN [pos |-> e.sa.pos, res |-> Err("Serde")]
             ELSE VisitFields(ts, d, e.sa, i + 1, Append(acc, e.res.v[1]))

\* HashMap::insert
Insert(m, k, v) == [x \in DOMAIN m \cup {k} |-> IF x = k THEN v ELSE m[x]]

\* serde's HashMap<u8, T> visitor: pulls entries until None
VisitMap(t, d, ma, acc) ==
    LET k == next_key_seed(d, ma)
    IN  IF ~IsOk(k.res) THEN [pos |-> k.sa.pos, res |-> k.res]
        ELSE IF k.res.v = <<>> THEN [pos |-> k.sa.pos, res |-> Ok(acc)]
        ELSE LET v == next_value_seed(t, d, k.sa)
             IN  IF ~IsOk(v.res) THEN [pos |-> v.sa.pos, res |-> v.res]
                 ELSE VisitMap(t, d, v.sa, Insert(acc, k.res.v[1], v.res.v))

deserialize_seq(t, d, pos) ==
    LET r == read_varint(d, pos)
    IN  IF ~IsOk(r.res) THEN r ELSE VisitVec(t, d, SeqDeserializer(r.pos, r.res.v), <<>>)

deserialize_map(t, d, pos) ==
    LET r == read_varint(d, pos)
    IN  IF ~IsOk(r.res) THEN r ELSE VisitMap(t, d, SeqDeserializer(r.pos, r.res.v), <<>>)

deserialize_tuple(ts, d, pos) ==
    LET r == read_varint(d, pos)
    IN  IF ~IsOk(r.res) THEN r
        ELSE IF r.res.v # Bits(Len(ts)) THEN [pos |-> r.pos, res |-> Err("InvalidFormat")]
        ELSE VisitFields(ts, d, SeqDeserializer(r.pos, Bits(Len(ts))), 1, <<>>)

\* the field count is read and believed
deserialize_struct_unchecked(ts, d, pos) ==
    LET r == read_varint(d, pos)
    IN  IF ~IsOk(r.res) THEN r
        ELSE VisitFields(ts, d, SeqDeserializer(r.pos, r.res.v), 1, <<>>)

deserialize_struct(ts, d, pos) ==
    LET r == read_varint(d, pos)
    IN  IF ~IsOk(r.res) THEN r
        ELSE IF r.res.v # Bits(Len(ts)) THEN [pos |-> r.pos, res |-> Err("InvalidFormat")]
        ELSE VisitFields(ts, d, SeqDeserializer(r.pos, r.res.v), 1, <<>>)

\* VariantAccess::tuple_variant: reads the arity, then hands over to deserialize_tuple
tuple_variant(ts, d, pos) ==
    LET r == read_varint(d, pos)
    IN  IF ~IsOk(r.res) THEN r
        ELSE IF r.res.v # Bits(Len(ts)) THEN [pos |-> r.pos, res |-> Err("InvalidFormat")]
        ELSE deserialize_tuple(ts, d, r.pos)

\* VariantAccess::struct_variant
struct_variant(ts, d, pos) ==
    LET r == read_varint(d, pos)
    IN  IF ~IsOk(r.res) THEN r
        ELSE IF r.res.v # Bits(Len(ts)) THEN [pos |-> r.pos, res |-> Err("InvalidFormat")]
        ELSE VisitFields(ts, d, SeqDeserializer(r.pos, r.res.v), 1, <<>>)

\* EnumAccess::variant_seed, then the variant's payload
deserialize_enum(shapes, d, pos) ==
    LET r == read_varint(d, pos)
    IN  IF ~IsOk(r.res) THEN r
        ELSE IF ~Gt64(Bits(Len(shapes)), r.res.v) THEN [pos |-> r.pos, res |-> Err("Serde")]
        ELSE LET idx == Nat64(r.res.v)
                 shape == shapes[idx + 1]
                 Variant(x) == <<idx, x>>
             IN  CASE shape[1] = "unit" -> [pos |-> r.pos, res |-> Ok(<<idx, <<>>>>)]
                   [] shape[1] = "newtype" -> Then(Deserialize(shape[2], d, r.pos), Variant)
                   [] shape[1] = "tuple" -> Then(tuple_variant(shape[2], d, r.pos), Variant)
                   [] shape[1] = "struct" -> Then(struct_variant(shape[2], d, r.pos), Variant)

\* Error::Serde("deserialize_any is not supported")
NotSupported == [tag |-> "Err", e |-> "Serde", msg |-> "deserialize_any is not supported"]

deserialize_any(d, pos) == [pos |-> pos, res |-> NotSupported]

\* one byte is read and thrown away
deserialize_ignored_any_skips(d, pos) ==
    LET Ignored(b) == <<>> IN Then(read_u8(d, pos), Ignored)

deserialize_ignored_any(d, pos) == deserialize_any(d, pos)

\* every tag but 0 stands for some
deserialize_option_nonzero(t, d, pos) ==
    LET r == read_u8(d, pos)
        Some(x) == <<x>>
    IN  IF ~IsOk(r.res) THEN r
        ELSE IF r.res.v = 0 THEN [pos |-> r.pos, res |-> Ok(<<>>)]
        ELSE Then(Deserialize(t, d, r.pos), Some)

deserialize_option(t, d, pos) ==
    LET r == read_u8(d, pos)
        Some(x) == <<x>>
    IN  IF ~IsOk(r.res) THEN r
        ELSE IF r.res.v = 0 THEN [pos |-> r.pos, res |-> Ok(<<>>)]
        ELSE IF r.res.v = 1 THEN Then(Deserialize(t, d, r.pos), Some)
        ELSE [pos |-> r.pos, res |-> Err("InvalidFormat")]

deserialize_bool(d, pos) ==
    LET NonZero(b) == b # 0 IN Then(read_u8(d, pos), NonZero)

deserialize_char(d, pos) ==
    LET r == read_u32(d, pos)
    IN  IF ~IsOk(r.res) THEN r
        ELSE IF CharFromU32(r.res.v) < 0 THEN [pos |-> r.pos, res |-> Err("InvalidFormat")]
        ELSE [pos |-> r.pos, res |-> Ok(CharFromU32(r.res.v))]

Deserialize(t, d, pos) ==
    CASE t[1] = "bool" -> deserialize_bool(d, pos)
      [] t[1] = "u8" -> read_u8(d, pos)
      [] t[1] = "i8" -> Then(read_u8(d, pos), AsI8)
      [] t[1] = "u16" -> read_u16(d, pos)
      [] t[1] = "i16" -> Then(read_u16(d, pos), AsI16)
      [] t[1] \in {"u32", "i32"} -> read_u32(d, pos)
      [] t[1] \in {"u64", "i64"} -> read_u64(d, pos)
      [] t[1] = "char" -> deserialize_char(d, pos)
      [] t[1] = "str" -> read_str(d, pos)
      [] t[1] = "bytes" -> read_byte_slice(d, pos)
      [] t[1] = "unit" -> [pos |-> pos, res |-> Ok(<<>>)]
      [] t[1] = "option" -> deserialize_option(t[2], d, pos)
      [] t[1] = "newtype" -> Deserialize(t[2], d, pos)
      [] t[1] \in {"seq", "iter"} -> deserialize_seq(t[2], d, pos)
      [] t[1] = "tuple" -> deserialize_tuple(t[2], d, pos)
      [] t[1] = "struct" -> deserialize_struct(t[2], d, pos)
      [] t[1] \in {"map", "itermap"} -> deserialize_map(t[2], d, pos)
      [] t[1] = "enum" -> deserialize_enum(t[2], d, pos)
      [] t[1] = "any" -> deserialize_any(d, pos)
      [] t[1] = "ignored_any" -> deserialize_ignored_any(d, pos)

HeaderLen == 5

\* the version is checked before the magic
Deserializer_new_version_first(bytes) ==
    IF Len(bytes) < HeaderLen THEN Err("InvalidFormat")
    ELSE IF bytes[5] # VERSION THEN UnsupportedVersion(bytes[5])
    ELSE IF SubSeq(bytes, 1, 4) # MAGIC THEN Err("InvalidFormat")
    ELSE Ok(SubSeq(bytes, 6, Len(bytes)))

\* Deserializer::new: the reader over the body, or the error
Deserializer_new(bytes) ==
    IF Len(bytes) < HeaderLen THEN Err("InvalidFormat")
    ELSE IF SubSeq(bytes, 1, 4) # MAGIC THEN Err("InvalidFormat")
    ELSE IF bytes[5] # VERSION THEN UnsupportedVersion(bytes[5])
    ELSE Ok(SubSeq(bytes, 6, Len(bytes)))

\* from_bytes, with the reader's final position
from_bytes_run(t, bytes) ==
    LET n == Deserializer_new(bytes)
    IN  IF ~IsOk(n) THEN [pos |-> 0, res |-> n] ELSE Deserialize(t, n.v, 0)

from_bytes(t, bytes) == from_bytes_run(t, bytes).res

----------------------------------------------------------------------------
(* The helpers of src/src/compression.rs.                                  *)

\* the version byte is not looked at
is_serialized_magic_only(bytes) ==
    IF Len(bytes) < HeaderLen THEN FALSE
    ELSE SubSeq(bytes, 1, 4) = MAGIC

is_serialized(bytes) ==
    IF Len(bytes) < HeaderLen THEN FALSE
    ELSE Len(bytes) >= HeaderLen /\ SubSeq(bytes, 1, 4) = MAGIC /\ bytes[5] = VERSION

----------------------------------------------------------------------------
(* SpecBuf: a ReadBuffer over an input the caller does not control, and    *)
(* any sequence of calls on it.                                            *)

NoResult == [tag |-> "None"]

\* no sequence or map is being visited
NoAccess == [kind |-> "none"]

\* no value is being encoded or decoded
CodecIdle ==
    /\ ty = <<"unit">>
    /\ val = <<>>
    /\ order = <<>>
    /\ pc = "idle"
    /\ src = "none"
    /\ body = <<>>
    /\ out = NoResult
    /\ input = <<>>
    /\ reader = NoResult
    /\ consumed = 0
    /\ decoded = NoResult

MaxRun == 11     \* the longest run of continuation bytes in an input
MaxCount == 3    \* the small counts handed to read_bytes and skip: 0..MaxCount

Run(k) == [i \in 1..k |-> 255]

Tails == {<<>>, <<1>>, <<127, 7>>}

RunInputs == {Run(k) \o t : k \in {0} \cup ((MaxRun - 3)..MaxRun), t \in Tails}

StrInputs ==
    { <<2, 104, 105>>, <<2, 195, 169>>, <<3, 228, 184, 150>>, <<4, 240, 159, 154, 128>>,
      <<1, 255>>, <<2, 195>>, <<3, 237, 160, 128>>, <<5, 104>>, <<1, 2, 3>>, <<0>> }

ForeignInputs == RunInputs \cup StrInputs

Counts ==
    {Bits(n) : n \in 0..MaxCount} \cup {Neg64(k) : k \in 1..MaxCount} \cup {Top64}

BufInit ==
    /\ overflow_checks \in BOOLEAN
    /\ data \in ForeignInputs
    /\ position = 0
    /\ op = "new"
    /\ arg = Zero64
    /\ prev = 0
    /\ last = NoResult
    /\ access = NoAccess
    /\ comp = NoResult
    /\ heap = <<>>
    /\ calls = <<>>
    /\ detected = NoResult
    /\ wbuf = <<>>
    /\ wlog = <<>>
    /\ CodecIdle

\* a call on the reader: a panic ends the run
Call(name, a, r) ==
    /\ op # "none"
    /\ last.tag # "Panic"
    /\ position' = r.pos
    /\ last' = r.res
    /\ prev' = position
    /\ op' = name
    /\ arg' = a
    /\ UNCHANGED <<comp, heap, calls, detected, access, overflow_checks, data, wbuf, wlog, codecvars>>

ReadU8 == Call("read_u8", Zero64, read_u8(data, position))
ReadU16 == Call("read_u16", Zero64, read_u16(data, position))
ReadU32 == Call("read_u32", Zero64, read_u32(data, position))
ReadU64 == Call("read_u64", Zero64, read_u64(data, position))
ReadVarint == Call("read_varint", Zero64, read_varint(data, position))
ReadBytes == \E n \in Counts : Call("read_bytes", n, read_bytes(data, position, n))
ReadByteSlice == Call("read_byte_slice", Zero64, read_byte_slice(data, position))
ReadStr == Call("read_str", Zero64, read_str(data, position))
PeekU8 == Call("peek_u8", Zero64, peek_u8(data, position))
Skip == \E n \in Counts : Call("skip", n, skip(data, position, n))

BufNext ==
    \/ ReadU8
    \/ ReadU16
    \/ ReadU32
    \/ ReadU64
    \/ ReadVarint
    \/ ReadBytes
    \/ ReadByteSlice
    \/ ReadStr
    \/ PeekU8
    \/ Skip

SpecBuf == BufInit /\ [][BufNext]_vars

\* C7: whatever was called and however it ended, the cursor is inside the input
\* and position + remaining() is the input's length.
C7_PositionInvariant ==
    /\ 0 <= position
    /\ position <= Len(data)
    /\ remaining(data, position) >= 0
    /\ position + remaining(data, position) = Len(data)

\* a wrapping skip has moved the cursor backwards
C7_Witness ==
    /\ op = "skip"
    /\ ~overflow_checks
    /\ IsOk(last)
    /\ position < prev

\* C10: read_varint consumes at most 10 bytes, and a run of more than 10
\* continuation bytes is refused with InvalidFormat.
RECURSIVE ContRun(_, _)
ContRun(d, pos) == IF pos < Len(d) /\ d[pos + 1] >= 128 THEN 1 + ContRun(d, pos + 1) ELSE 0

C10_VarintTooLong ==
    op = "read_varint" =>
        /\ position - prev <= Groups
        /\ ContRun(data, prev) > Groups => IsErr(last, "InvalidFormat")

C10_Witness ==
    /\ op = "read_varint"
    /\ ContRun(data, prev) > Groups
    /\ IsErr(last, "InvalidFormat")
    /\ position - prev = Groups

\* C8 as claimed: read_bytes(n), skip(n) and read_byte_slice with prefix n end in
\* UnexpectedEof exactly when n exceeds what remains, and otherwise succeed and
\* move the cursor forward by n.
EofOrAdvance(n, from) ==
    IF Gt64(n, Bits(Len(data) - from))
    THEN IsErr(last, "UnexpectedEof")
    ELSE IsOk(last) /\ position = from + Nat64(n)

C8_EofExactlyWhenShort ==
    /\ op \in {"read_bytes", "skip"} => EofOrAdvance(arg, prev)
    /\ op = "read_byte_slice" /\ IsOk(read_varint(data, prev).res) =>
           EofOrAdvance(read_varint(data, prev).res.v, read_varint(data, prev).pos)

\* C23: peek_u8 gives the byte at the cursor, which is what read_u8 gives
\* there, or UnexpectedEof at the end, and leaves the cursor alone; read_u8
\* moves it by one; a read_bytes(n) that succeeds at p gives the input bytes
\* p..p+n and moves the cursor to p+n.
C23_PeekAndReadBytes ==
    /\ op = "peek_u8" =>
          /\ position = prev
          /\ IF prev < Len(data) THEN last = Ok(data[prev + 1])
                                 ELSE IsErr(last, "UnexpectedEof")
    /\ op = "read_u8" =>
          IF prev < Len(data) THEN last = Ok(data[prev + 1]) /\ position = prev + 1
                              ELSE IsErr(last, "UnexpectedEof")
    /\ op = "read_bytes" /\ IsOk(last) =>
          /\ position >= prev
          /\ Bits(position - prev) = arg
          /\ last.v = [i \in 1..(position - prev) |-> data[prev + i]]

\* two bytes were read from the middle of the input
C23_Witness ==
    /\ op = "read_bytes"
    /\ IsOk(last)
    /\ prev > 0
    /\ arg = Bits(2)
    /\ last.v = <<data[prev + 1], data[prev + 2]>>
    /\ position = prev + 2

\* C28: a fixed-width read, read_bytes(n) or skip(n) that fails with
\* UnexpectedEof leaves the position where it was, and the reader still
\* serves every read that fits in the remaining bytes; a call that fails
\* with an error after moving the cursor is a prefixed read (read_varint,
\* read_byte_slice, read_str).
C28_FailedReadKeepsPosition ==
    /\ (op \in {"read_u8", "read_u16", "read_u32", "read_u64", "read_bytes", "skip"}
            /\ IsErr(last, "UnexpectedEof")) =>
          /\ position = prev
          /\ \A n \in 0..remaining(data, position) :
                /\ read_bytes(data, position, Bits(n)).res = Ok(SubSeq(data, position + 1, position + n))
                /\ skip(data, position, Bits(n)) = [pos |-> position + n, res |-> Ok("unit")]
          /\ remaining(data, position) >= 1 => read_u8(data, position).res = Ok(data[position + 1])
    /\ (last.tag = "Err" /\ position # prev) =>
          op \in {"read_varint", "read_byte_slice", "read_str"}

\* read_u32 fails with 1 to 3 bytes left behind bytes that were read, and the
\* cursor stays
C28_Witness ==
    /\ op = "read_u32"
    /\ IsErr(last, "UnexpectedEof")
    /\ prev > 0
    /\ position = prev
    /\ remaining(data, position) \in 1..3

\* C29 as claimed: the value read_varint returns is the sum of the payloads
\* (b_i & 0x7F) * 2^(7*i) of the bytes it consumed, none of their bits lost:
\* group i of the value is the payload of byte i, so that the payload of a
\* tenth byte is 0 or 1.
C29_VarintValue ==
    (op = "read_varint" /\ IsOk(last)) =>
        \A k \in 1..Groups :
            last.v[k] = IF k <= (position - prev) THEN data[prev + k] % GroupBase ELSE 0

----------------------------------------------------------------------------
(* Spec: a value is encoded with to_bytes; its bytes, a strict prefix of   *)
(* them, or bytes forged by somebody else are handed to Deserializer::new  *)
(* or to from_bytes, which decodes them as the value's type.               *)

MaxElems == 2    \* the sequences have 0..MaxElems elements
MaxKeys == 2     \* the maps have keys in 1..MaxKeys

U8 == <<"u8">>
U32 == <<"u32">>
Str == <<"str">>

\* tests::TestStruct of de.rs: name, age, active, scores
TestStruct == <<"struct", <<Str, U32, <<"bool">>, <<"seq", <<"u64">>>>>>>>

\* an enum with the four variant shapes
TestEnum ==
    <<"enum", << <<"unit">>, <<"newtype", U32>>, <<"tuple", <<U8, U8>>>>,
                 <<"struct", <<Str>>>>, <<"tuple", <<<<"seq", U8>>, <<"seq", U8>>>>>>,
                 <<"struct", <<U8, <<"option", U8>>>>>> >> >>

\* an enum whose variant 2 is a tuple variant of one u32
ScenarioEnum == <<"enum", << <<"unit">>, <<"unit">>, <<"tuple", <<U32>>>> >> >>

Sample(t, v) == [ty |-> t, v |-> v, union |-> FALSE, map |-> FALSE]
Union(v) == [ty |-> TestEnum, v |-> v, union |-> TRUE, map |-> FALSE]

ScalarSamples ==
    << Sample(<<"bool">>, TRUE), Sample(<<"bool">>, FALSE),
       Sample(U8, 0), Sample(U8, 255),
       Sample(<<"i8">>, -128), Sample(<<"i8">>, -42), Sample(<<"i8">>, 127),
       Sample(<<"u16">>, 4660), Sample(<<"u16">>, 65535),
       Sample(<<"i16">>, -1234), Sample(<<"i16">>, -32768),
       Sample(U32, BitsOf(42, 32)), Sample(U32, [i \in 1..32 |-> 1]),
       Sample(<<"i32">>, NegBitsOf(123456789, 32)),
       Sample(<<"u64">>, [i \in 1..64 |-> 1]), Sample(<<"u64">>, BitsOf(305419896, 64)),
       Sample(<<"i64">>, NegBitsOf(100, 64)),
       Sample(<<"i64">>, [i \in 1..64 |-> IF i = 64 THEN 1 ELSE 0]),
       Sample(<<"char">>, 97), Sample(<<"char">>, 19990), Sample(<<"char">>, 128640),
       Sample(<<"char">>, 0), Sample(<<"char">>, 1114111),
       Sample(<<"unit">>, <<>>) >>

TextSamples ==
    << Sample(Str, <<>>), Sample(Str, <<104, 105>>),
       Sample(Str, <<233, 19990, 128640, 33>>),
       Sample(<<"bytes">>, <<>>), Sample(<<"bytes">>, <<0, 255, 128>>) >>

OptionSamples ==
    << Sample(<<"option", U32>>, <<>>), Sample(<<"option", U32>>, <<BitsOf(5, 32)>>),
       Sample(<<"option", Str>>, <<<<104, 105>>>>),
       Sample(<<"option", <<"option", U8>>>>, <<<<>>>>) >>

\* Vec<u16>, Vec<String> and Vec<Vec<u8>> with n elements
SeqSamples ==
    [n \in 1..(MaxElems + 1) |->
        Sample(<<"seq", <<"u16">>>>, [i \in 1..(n - 1) |-> 1000 * i])]
    \o [n \in 1..MaxElems |-> Sample(<<"seq", Str>>, [i \in 1..n |-> [j \in 1..(i - 1) |-> 96 + j]])]
    \o [n \in 1..MaxElems |-> Sample(<<"seq", <<"seq", U8>>>>, [i \in 1..n |-> [j \in 1..(i - 1) |-> j]])]

\* HashMap<u8, String> with the keys 1..n
MapSamples ==
    [n \in 1..(MaxKeys + 1) |->
        [ty |-> <<"map", Str>>, v |-> [k \in 1..(n - 1) |-> <<64 + k, 233>>],
         union |-> FALSE, map |-> TRUE]]

RecordSamples ==
    << Sample(<<"tuple", <<U8, Str>>>>, <<7, <<104, 105>>>>),
       Sample(<<"tuple", <<<<"unit">>, <<"unit">>>>>>, <<<<>>, <<>>>>),
       Sample(<<"newtype", <<"i16">>>>, -2),
       Sample(TestStruct, <<<<65, 108>>, BitsOf(30, 32), TRUE,
                            <<BitsOf(95, 64), [i \in 1..64 |-> 1]>>>>),
       Sample(<<"struct", <<<<"option", U8>>, <<"seq", U8>>>>>>, <<<<9>>, <<>>>>) >>

UnionSamples ==
    << Union(<<0, <<>>>>), Union(<<1, BitsOf(42, 32)>>), Union(<<2, <<2, 9>>>>),
       Union(<<2, <<5, 9>>>>), Union(<<3, <<<<116, 101, 115, 116>>>>>>),
       Union(<<4, <<<<0, 0>>, <<7>>>>>>), Union(<<5, <<3, <<4>>>>>>),
       Union(<<5, <<3, <<>>>>>>),
       [ty |-> ScenarioEnum, v |-> <<2, <<BitsOf(7, 32)>>>>, union |-> TRUE, map |-> FALSE] >>

\* sequences and maps whose length the Serializer is not told
UnknownLenSamples ==
    << Sample(<<"iter", U8>>, <<1, 2>>), Sample(<<"iter", Str>>, <<>>),
       Sample(<<"itermap", U8>>, [k \in 1..1 |-> 9]),
       Sample(<<"tuple", <<U8, <<"iter", U8>>>>>>, <<7, <<1>>>>) >>

Samples ==
    ScalarSamples \o TextSamples \o OptionSamples \o SeqSamples \o MapSamples
        \o RecordSamples \o UnionSamples \o UnknownLenSamples

\* the orders a HashMap with keys in 1..MaxKeys may iterate in
Orders == {o \in [1..MaxKeys -> 1..MaxKeys] : \A i, j \in 1..MaxKeys : o[i] = o[j] => i = j}

\* bodies whose count is not the arity of the type they are decoded as: a
\* variant index and a count for TestEnum, a count alone for tuples and structs
CountBodies ==
    { <<2, 3, 1, 2, 3>>, <<3, 2, 0, 0>>, <<3, 0>>, <<4, 1, 0>>, <<5, 3, 1, 0, 0>>,
      <<3, 1, 0, 0>>, <<5, 7, 1, 2>> }

\* bodies that start with a tag byte: of an option, of a bool
TagBodies == { <<1, 5, 0, 0, 0>>, <<0, 9>>, <<255>>, <<128, 1, 0, 0, 0>> }

\* four bytes that are or are not a Unicode scalar value: 'A', U+D7FF, U+D800,
\* U+DFFF, U+E000, U+10FFFF, 0x110000, 0x01000041
CharBodies ==
    { <<65, 0, 0, 0>>, <<255, 215, 0, 0>>, <<0, 216, 0, 0>>, <<255, 223, 0, 0>>,
      <<0, 224, 0, 0>>, <<255, 255, 16, 0>>, <<0, 0, 17, 0>>, <<65, 0, 0, 1>> }

\* bodies somebody else wrote: a length prefix of 2^64-1, at the start and
\* behind one byte, and small ones
ForgedBodies ==
    { <<>>, <<2>>, <<1, 7>>, <<0, 0, 0, 0>>, Run(Groups - 1) \o <<1>>,
      <<1>> \o Run(Groups - 1) \o <<1, 7>>, <<2, 2>> \o Run(Groups - 1) \o <<1>> }
        \cup CountBodies \cup TagBodies \cup CharBodies


ForgedHeaders ==
    { MAGIC \o <<VERSION>>, MAGIC \o <<99>>, MAGIC \o <<0>>, <<88, 89, 90, 87, VERSION>>,
      <<88, 89, 90, 87, 99>>, <<78, 65, 78, 78, VERSION>> }

Forged ==
    {h \o b : h \in ForgedHeaders, b \in ForgedBodies}
        \cup {SubSeq(MAGIC \o <<VERSION>>, 1, n) : n \in 0..(HeaderLen - 1)}

Init ==
    /\ overflow_checks \in BOOLEAN
    /\ \E i \in DOMAIN Samples :
          /\ ty = Samples[i].ty
          /\ val = Samples[i].v
          /\ order \in IF Samples[i].map THEN Orders ELSE {[k \in 1..MaxKeys |-> k]}
    /\ pc = "start"
    /\ src = "none"
    /\ body = <<>>
    /\ out = NoResult
    /\ input = <<>>
    /\ reader = NoResult
    /\ consumed = 0
    /\ decoded = NoResult
    /\ wbuf = <<>>
    /\ wlog = <<>>
    /\ data = <<>>
    /\ position = 0
    /\ op = "none"
    /\ arg = Zero64
    /\ prev = 0
    /\ last = NoResult
    /\ access = NoAccess
    /\ comp = NoResult
    /\ heap = <<>>
    /\ calls = <<>>
    /\ detected = NoResult

\* to_bytes(&val)
ToBytes ==
    /\ pc = "start"
    /\ body' = Serialize(ty, val, <<>>, order).d
    /\ out' = to_bytes(ty, val, order)
    /\ input' = IF IsOk(out') THEN out'.v ELSE <<>>
    /\ src' = "encoded"
    /\ pc' = IF IsOk(out') THEN "encoded" ELSE "refused"
    /\ UNCHANGED <<comp, heap, calls, detected, access, bufvars, ty, val, order, reader, consumed, decoded>>

\* the input loses its tail: a strict prefix of what to_bytes returned
Truncate ==
    \E n \in 0..(Len(input) - 1) :
        /\ pc = "encoded"
        /\ input' = SubSeq(input, 1, n)
        /\ src' = "truncated"
        /\ pc' = "truncated"
        /\ UNCHANGED <<comp, heap, calls, detected, access, bufvars, ty, val, order, body, out, reader, consumed, decoded>>

\* what may stand behind an encoding
TrailingBytes == { <<0>>, <<255>>, <<2, 9, 1>> }

\* the input gets a tail: what to_bytes returned, and more bytes behind it
Extend ==
    \E t \in TrailingBytes :
        /\ pc = "encoded"
        /\ input' = input \o t
        /\ src' = "extended"
        /\ pc' = "extended"
        /\ UNCHANGED <<comp, heap, calls, detected, access, bufvars, ty, val, order, body, out, reader, consumed, decoded>>

\* the input comes from somebody else
Forge ==
    \E f \in Forged :
        /\ pc = "start"
        /\ input' = f
        /\ src' = "forged"
        /\ pc' = "forged"
        /\ UNCHANGED <<comp, heap, calls, detected, access, bufvars, ty, val, order, body, out, reader, consumed, decoded>>

\* Deserializer::new(&input)
DeserializerNew ==
    /\ pc \in {"encoded", "truncated", "extended", "forged"}
    /\ reader' = IF IsOk(Deserializer_new(input))
                 THEN Ok([data |-> Deserializer_new(input).v, position |-> 0])
                 ELSE Deserializer_new(input)
    /\ pc' = "constructed"
    /\ UNCHANGED <<comp, heap, calls, detected, access, bufvars, ty, val, order, src, body, out, input, consumed, decoded>>

\* from_bytes::<T>(&input)
FromBytes ==
    /\ pc \in {"encoded", "truncated", "extended", "forged"}
    /\ decoded' = from_bytes(ty, input)
    /\ consumed' = from_bytes_run(ty, input).pos
    /\ pc' = "done"
    /\ UNCHANGED <<comp, heap, calls, detected, access, bufvars, ty, val, order, src, body, out, input, reader>>

\* the types that ask for a dynamic decode, at the start of the body and
\* behind a byte of it
DynamicTargets ==
    { <<"any">>, <<"ignored_any">>, <<"tuple", <<U8, <<"ignored_any">>>>>>,
      <<"option", <<"any">>>>, <<"seq", <<"ignored_any">>>> }

\* from_bytes::<T>(&input) for a T that asks for a dynamic decode
FromBytesDynamic ==
    \E t \in DynamicTargets :
        /\ pc \in {"encoded", "truncated", "extended", "forged"}
        /\ ty' = t
        /\ decoded' = from_bytes(t, input)
        /\ consumed' = from_bytes_run(t, input).pos
        /\ pc' = "dynamic"
        /\ UNCHANGED <<comp, heap, calls, detected, access, bufvars, val, order, src, body, out, input, reader>>

\* is_serialized(&input)
IsSerialized ==
    /\ pc \in {"encoded", "truncated", "extended", "forged"}
    /\ detected' = is_serialized(input)
    /\ pc' = "detected"
    /\ UNCHANGED <<comp, heap, calls, access, bufvars, ty, val, order, src, body, out, input, reader, consumed, decoded>>

Next ==
    \/ IsSerialized
    \/ ToBytes
    \/ Truncate
    \/ Extend
    \/ Forge
    \/ DeserializerNew
    \/ FromBytes
    \/ FromBytesDynamic

Spec == Init /\ [][Next]_vars

\* the value is a tagged union
IsUnion == ty[1] = "enum"

\* from_bytes has decoded what to_bytes returned
RoundTrip == pc = "done" /\ src = "encoded"

\* C1: a value without tagged unions (scalars, strings, byte blobs, options,
\* sequences, maps, tuples and records) that went through to_bytes and
\* from_bytes comes back equal.
C1_RoundTrip ==
    RoundTrip /\ ~IsUnion => IsOk(decoded) /\ decoded.v = val

C1_Witness ==
    /\ RoundTrip
    /\ ty = TestStruct
    /\ IsOk(decoded)
    /\ decoded.v = val
    /\ Len(val[4]) = 2

\* C2 as claimed: a tagged-union value of any of the four variant shapes comes
\* back from from_bytes(to_bytes(v)) as the same variant with the same payload.
C2_UnionRoundTrip ==
    RoundTrip /\ IsUnion => IsOk(decoded) /\ decoded.v = val

\* C3 as claimed: whatever the input, from_bytes ends with a value or with an
\* Error; it never panics.
C3_NeverPanics ==
    pc = "done" => decoded.tag \in {"Ok", "Err"}

\* C4 as claimed, for the prefixes that keep the whole header (a shorter one is
\* refused by Deserializer::new with InvalidFormat): decoding a strict prefix
\* of a valid encoding fails with UnexpectedEof.
C4_PrefixIsEof ==
    pc = "done" /\ src = "truncated" /\ Len(input) >= HeaderLen =>
        IsErr(decoded, "UnexpectedEof")

\* C5: what to_bytes returns is 'NANO', the version byte 1 and the body that
\* the WriteBuffer held, 5 + Len(body) bytes in all.
C5_HeaderThenBody ==
    pc # "start" /\ src # "forged" /\ IsOk(out) =>
        /\ Len(out.v) = 5 + Len(body)
        /\ SubSeq(out.v, 1, 4) = <<78, 65, 78, 79>>
        /\ out.v[5] = 1
        /\ SubSeq(out.v, 6, Len(out.v)) = body

C5_Witness ==
    /\ pc = "encoded"
    /\ ty = <<"u32">>
    /\ IsOk(out)
    /\ out.v = <<78, 65, 78, 79, 1, 42, 0, 0, 0>>
    /\ body = <<42, 0, 0, 0>>

\* C6: Deserializer::new refuses an input of fewer than 5 bytes with
\* InvalidFormat; else one whose first 4 bytes are not the magic with
\* InvalidFormat, whatever its 5th byte; else one whose 5th byte v is not the
\* version with UnsupportedVersion(v); else it returns a reader over the bytes
\* behind the header, at position 0.  The bytes behind the header decide nothing.
C6_EnvelopeOrder ==
    pc = "constructed" =>
        IF Len(input) < 5 THEN IsErr(reader, "InvalidFormat")
        ELSE IF SubSeq(input, 1, 4) # <<78, 65, 78, 79>> THEN IsErr(reader, "InvalidFormat")
        ELSE IF input[5] # 1
        THEN IsErr(reader, "UnsupportedVersion") /\ reader.ver = input[5]
        ELSE /\ IsOk(reader)
             /\ reader.v.position = 0
             /\ reader.v.data = SubSeq(input, 6, Len(input))

C6_Witness ==
    /\ pc = "constructed"
    /\ src = "forged"
    /\ input = <<88, 89, 90, 87, 99>>
    /\ IsErr(reader, "InvalidFormat")

\* the bytes behind the header
Body == SubSeq(input, HeaderLen + 1, Len(input))

\* where the count of a fixed-arity shape sits in the body d, and the arity K
\* the type declares: at the start for a tuple or a struct, behind the variant
\* index for a tuple variant or a struct variant
ArityPrefix(t, d) ==
    LET r == read_varint(d, 0)
        none == [has |-> FALSE, at |-> 0, k |-> 0]
    IN  IF t[1] \in {"tuple", "struct"} THEN [has |-> TRUE, at |-> 0, k |-> Len(t[2])]
        ELSE IF t[1] # "enum" \/ ~IsOk(r.res) THEN none
        ELSE IF ~Gt64(Bits(Len(t[2])), r.res.v) THEN none
        ELSE LET shape == t[2][Nat64(r.res.v) + 1]
             IN  IF shape[1] \in {"tuple", "struct"}
                 THEN [has |-> TRUE, at |-> r.pos, k |-> Len(shape[2])]
                 ELSE none

\* C11: when the count K' in the input is not the arity K of the tuple, struct,
\* tuple variant or struct variant that is decoded, from_bytes fails with
\* InvalidFormat right behind the count, before any element is read; and a
\* value that is returned has exactly K elements.
C11_ArityMismatch ==
    pc = "done" /\ IsOk(Deserializer_new(input)) =>
        LET a == ArityPrefix(ty, Body)
            c == read_varint(Body, a.at)
            parts == IF ty[1] = "enum" THEN decoded.v[2] ELSE decoded.v
        IN  a.has =>
              /\ IsOk(c.res) /\ c.res.v # Bits(a.k) =>
                    IsErr(decoded, "InvalidFormat") /\ consumed = c.pos
              /\ IsOk(decoded) => Len(parts) = a.k

\* a tuple variant of two fields whose count says three
C11_Witness ==
    /\ pc = "done"
    /\ src = "forged"
    /\ ty = TestEnum
    /\ input = <<78, 65, 78, 79, 1, 2, 3, 1, 2, 3>>
    /\ IsErr(decoded, "InvalidFormat")
    /\ consumed = 2

\* C12: a dynamic decode (deserialize_any, deserialize_ignored_any) fails with
\* the 'not supported' error and reads nothing: at the start of the body, and
\* behind the tuple count and first field, the option tag or the sequence
\* count that were read before it.
C12_DynamicUnsupported ==
    pc = "dynamic" /\ IsOk(Deserializer_new(input)) =>
        /\ ty[1] \in {"any", "ignored_any"} =>
              /\ decoded = [tag |-> "Err", e |-> "Serde", msg |-> "deserialize_any is not supported"]
              /\ consumed = 0
        /\ ty[1] = "tuple" /\ Len(Body) >= 2 /\ Body[1] = 2 =>
              /\ decoded = [tag |-> "Err", e |-> "Serde", msg |-> "deserialize_any is not supported"]
              /\ consumed = 2
        /\ ty[1] = "option" /\ Len(Body) >= 1 /\ Body[1] = 1 =>
              /\ decoded = [tag |-> "Err", e |-> "Serde", msg |-> "deserialize_any is not supported"]
              /\ consumed = 1
        /\ ty[1] = "seq" /\ Len(Body) >= 1 /\ Body[1] \in 1..127 =>
              /\ decoded = [tag |-> "Err", e |-> "Serde", msg |-> "deserialize_any is not supported"]
              /\ consumed = 1
        /\ IsOk(decoded) =>
              \/ ty[1] = "option" /\ Body[1] = 0
              \/ ty[1] = "seq" /\ read_varint(Body, 0).res = Ok(Zero64)

\* IgnoredAny is asked for behind the first field of a tuple
C12_Witness ==
    /\ pc = "dynamic"
    /\ ty = <<"tuple", <<U8, <<"ignored_any">>>>>>
    /\ input = <<78, 65, 78, 79, 1, 2, 2, 255, 255, 255, 255, 255, 255, 255, 255, 255, 1>>
    /\ decoded.tag = "Err"
    /\ decoded.e = "Serde"
    /\ consumed = 2

\* byte strings, one behind the other
RECURSIVE Flat(_)
Flat(ss) == IF ss = <<>> THEN <<>> ELSE Head(ss) \o Flat(Tail(ss))

\* the bytes of one value, encoded on its own
Enc(t, v) == Serialize(t, v, <<>>, order).d

\* to_bytes has just returned
Encoded == pc \in {"encoded", "refused"}

\* C13: a sequence or a map whose length is not known is refused when it is
\* begun, and nothing is appended for it (the buffer stays empty, or holds
\* what was written before it); with a known length K the body is the
\* one-byte varint of K and then the elements.
C13_UnknownLength ==
    Encoded =>
        /\ ty[1] \in {"iter", "itermap"} =>
              pc = "refused" /\ out.tag = "Err" /\ body = <<>>
        /\ ty = <<"tuple", <<U8, <<"iter", U8>>>>>> =>
              pc = "refused" /\ out.tag = "Err" /\ body = <<2, val[1]>>
        /\ ty[1] = "seq" =>
              /\ IsOk(out)
              /\ body = <<Len(val)>> \o Flat([i \in 1..Len(val) |-> Enc(ty[2], val[i])])
        /\ ty[1] = "map" =>
              LET ks == KeysInOrder(val, order)
              IN  /\ IsOk(out)
                  /\ body = <<Cardinality(DOMAIN val)>>
                             \o Flat([i \in 1..Len(ks) |-> <<ks[i]>> \o Enc(ty[2], val[ks[i]])])

\* a sequence of unknown length behind a tuple's first field
C13_Witness ==
    /\ pc = "refused"
    /\ ty = <<"tuple", <<U8, <<"iter", U8>>>>>>
    /\ IsErr(out, "Serde")
    /\ body = <<2, 7>>
    /\ input = <<>>

\* from_bytes::<T> has returned and the input had a good header
Decoded == pc = "done" /\ IsOk(Deserializer_new(input))

\* C14: an option is the tag byte 0, or the tag byte 1 and the value's bytes
\* (Some(5u32) is the header, 1 and 5 0 0 0).  Decoded, tag 0 is none and one
\* byte is consumed, tag 1 is some of the value decoded behind it, and any
\* other tag is refused with InvalidFormat.
C14_OptionTag ==
    /\ Encoded /\ ty[1] = "option" =>
          /\ IsOk(out)
          /\ body = IF val = <<>> THEN <<0>> ELSE <<1>> \o Enc(ty[2], val[1])
    /\ Encoded /\ ty = <<"option", U32>> /\ val = <<BitsOf(5, 32)>> =>
          out = Ok(<<78, 65, 78, 79, 1, 1, 5, 0, 0, 0>>)
    /\ Decoded /\ ty[1] = "option" /\ Len(Body) >= 1 =>
          CASE Body[1] = 0 -> decoded = Ok(<<>>) /\ consumed = 1
            [] Body[1] = 1 ->
                 LET r == Deserialize(ty[2], Body, 1)
                 IN  /\ consumed = r.pos
                     /\ decoded = IF IsOk(r.res) THEN Ok(<<r.res.v>>) ELSE r.res
            [] OTHER -> IsErr(decoded, "InvalidFormat") /\ consumed = 1
    /\ Decoded /\ ty = <<"option", U32>> /\ Body = <<1, 5, 0, 0, 0>> =>
          decoded = Ok(<<BitsOf(5, 32)>>) /\ consumed = 5

\* the tag 128 in front of a u32
C14_Witness ==
    /\ Decoded
    /\ src = "forged"
    /\ ty = <<"option", U32>>
    /\ Body = <<128, 1, 0, 0, 0>>
    /\ IsErr(decoded, "InvalidFormat")
    /\ consumed = 1

\* C15 as claimed: a bool is the one byte 0 or 1, and decoded, byte 0 is false,
\* byte 1 is true and no other byte gives a bool.
C15_BoolRange ==
    /\ Encoded /\ ty = <<"bool">> => body = <<IF val THEN 1 ELSE 0>>
    /\ Decoded /\ ty = <<"bool">> /\ Len(Body) >= 1 =>
          CASE Body[1] = 0 -> decoded = Ok(FALSE) /\ consumed = 1
            [] Body[1] = 1 -> decoded = Ok(TRUE) /\ consumed = 1
            [] OTHER -> ~IsOk(decoded)

\* C16: a char is its code point in 4 bytes, least significant first.  Four
\* bytes that are a surrogate (0xD800..0xDFFF) or above 0x10FFFF are refused
\* with InvalidFormat; every other four bytes decode to the char with that
\* code point.
C16_CharScalar ==
    /\ Encoded /\ ty = <<"char">> =>
          body = <<val % 256, (val \div 256) % 256, val \div 65536, 0>>
    /\ Decoded /\ ty = <<"char">> /\ Len(Body) >= 4 =>
          LET cp == Body[1] + (256 * Body[2]) + (65536 * Body[3])
              scalar == Body[4] = 0 /\ cp <= 1114111 /\ cp \notin 55296..57343
          IN  /\ consumed = 4
              /\ IF scalar THEN decoded = Ok(cp) ELSE IsErr(decoded, "InvalidFormat")
    /\ RoundTrip /\ ty = <<"char">> => decoded = Ok(val)

\* the surrogate U+D800
C16_Witness ==
    /\ Decoded
    /\ src = "forged"
    /\ ty = <<"char">>
    /\ Body = <<0, 216, 0, 0>>
    /\ IsErr(decoded, "InvalidFormat")
    /\ consumed = 4

\* C17 as claimed: a string is the varint of its byte length and its UTF-8
\* bytes ("hi" is 8 bytes with the header).  Decoded, with the prefix n read:
\* UnexpectedEof when fewer than n bytes remain, else the string when the n
\* bytes are valid UTF-8, else InvalidFormat.
C17_StringPrefix ==
    /\ Encoded /\ ty = Str =>
          /\ IsOk(out)
          /\ body = <<Len(as_bytes(val))>> \o as_bytes(val)
          /\ val = <<104, 105>> => out.v = <<78, 65, 78, 79, 1, 2, 104, 105>>
    /\ Decoded /\ ty = Str /\ IsOk(read_varint(Body, 0).res) =>
          LET p == read_varint(Body, 0)
              n == p.res.v
              bytes == SubSeq(Body, p.pos + 1, p.pos + Nat64(n))
          IN  IF Gt64(n, Bits(Len(Body) - p.pos)) THEN IsErr(decoded, "UnexpectedEof")
              ELSE IF IsOk(from_utf8(bytes)) THEN decoded = from_utf8(bytes)
              ELSE IsErr(decoded, "InvalidFormat")

\* the bytes an integer type takes
IntBytes(t) ==
    CASE t[1] \in {"u8", "i8"} -> 1
      [] t[1] \in {"u16", "i16"} -> 2
      [] t[1] \in {"u32", "i32"} -> 4
      [] t[1] \in {"u64", "i64"} -> 8
      [] OTHER -> 0

\* C18: an N-bit integer is N/8 bytes, least significant first, a signed one
\* as its two's-complement pattern (u32 42 is the header and 42 0 0 0, 9
\* bytes); decoded at the same width it is the value that was encoded.
C18_FixedWidth ==
    /\ Encoded /\ IntBytes(ty) > 0 =>
          /\ IsOk(out)
          /\ Len(body) = IntBytes(ty)
          /\ Len(out.v) = 5 + IntBytes(ty)
          /\ IF IntBytes(ty) <= 2
             THEN \A j \in 1..IntBytes(ty) :
                      body[j] = ((val % (256 ^ IntBytes(ty))) \div (256 ^ (j - 1))) % 256
             ELSE /\ Len(val) = 8 * IntBytes(ty)
                  /\ \A i \in 1..Len(val) :
                        val[i] = (body[((i - 1) \div 8) + 1] \div (2 ^ ((i - 1) % 8))) % 2
    /\ Encoded /\ ty = U32 /\ val = BitsOf(42, 32) =>
          out = Ok(<<78, 65, 78, 79, 1, 42, 0, 0, 0>>)
    /\ RoundTrip /\ IntBytes(ty) > 0 =>
          decoded = Ok(val) /\ consumed = IntBytes(ty)

\* i64::MIN has made the round trip
C18_Witness ==
    /\ RoundTrip
    /\ ty = <<"i64">>
    /\ val[64] = 1
    /\ body = <<0, 0, 0, 0, 0, 0, 0, 128>>
    /\ decoded = Ok(val)

\* the fields vs of the shapes ts, each encoded on its own, in declared order
PartsEnc(ts, vs) == Flat([i \in 1..Len(ts) |-> Enc(ts[i], vs[i])])

\* C19: the body of a compound value is its prefix (the variant index of a
\* union, then the count of a tuple, struct, sequence, map, tuple variant or
\* struct variant) and then the encodings of its elements in declared order,
\* with nothing in between; tuple variant 2 with the u32 field 7 is the
\* header and 2, 1, 7 0 0 0.
C19_PrefixThenElements ==
    /\ Encoded /\ IsOk(out) =>
          CASE ty[1] \in {"tuple", "struct"} -> body = <<Len(ty[2])>> \o PartsEnc(ty[2], val)
            [] ty[1] = "seq" ->
                 body = <<Len(val)>> \o Flat([i \in 1..Len(val) |-> Enc(ty[2], val[i])])
            [] ty[1] = "map" ->
                 LET ks == KeysInOrder(val, order)
                 IN  body = <<Len(ks)>> \o Flat([i \in 1..Len(ks) |-> <<ks[i]>> \o Enc(ty[2], val[ks[i]])])
            [] ty[1] = "enum" ->
                 LET shape == ty[2][val[1] + 1]
                 IN  body = <<val[1]>> \o
                        (CASE shape[1] = "unit" -> <<>>
                           [] shape[1] = "newtype" -> Enc(shape[2], val[2])
                           [] OTHER -> <<Len(shape[2])>> \o PartsEnc(shape[2], val[2]))
            [] OTHER -> TRUE
    /\ Encoded /\ ty = ScenarioEnum /\ val = <<2, <<BitsOf(7, 32)>>>> =>
          out = Ok(<<78, 65, 78, 79, 1, 2, 1, 7, 0, 0, 0>>)
    /\ Encoded /\ ty = TestStruct =>
          body = <<4, 2, 65, 108, 30, 0, 0, 0, 1, 2, 95, 0, 0, 0, 0, 0, 0, 0,
                   255, 255, 255, 255, 255, 255, 255, 255>>

\* the tuple variant of the scenario has been encoded
C19_Witness ==
    /\ pc = "encoded"
    /\ ty = ScenarioEnum
    /\ val = <<2, <<BitsOf(7, 32)>>>>
    /\ body = <<2, 1, 7, 0, 0, 0>>
    /\ out = Ok(<<78, 65, 78, 79, 1, 2, 1, 7, 0, 0, 0>>)

\* the elements of the shapes ts[i..], decoded one after the other from pos:
\* the first one that does not decode, with the cursor as it left it
RECURSIVE FirstFailure(_, _, _, _)
FirstFailure(ts, d, pos, i) ==
    IF i > Len(ts) THEN [failed |-> FALSE, pos |-> pos, res |-> NoResult]
    ELSE LET r == Deserialize(ts[i], d, pos)
         IN  IF IsOk(r.res) THEN FirstFailure(ts, d, r.pos, i + 1)
             ELSE [failed |-> TRUE, pos |-> r.pos, res |-> r.res]

\* C21: when an element of a tuple, a struct or a sequence does not decode,
\* from_bytes returns the error of the first such element and the cursor
\* stays where that element's decode left it: nothing behind it is read and
\* no value is returned.  When every element decodes, a value is returned.
C21_FailFast ==
    /\ Decoded /\ ty[1] \in {"tuple", "struct"} /\ Len(Body) >= 1 /\ Body[1] = Len(ty[2]) =>
          LET f == FirstFailure(ty[2], Body, 1, 1)
          IN  IF f.failed THEN decoded = f.res /\ consumed = f.pos
              ELSE IsOk(decoded) /\ consumed = f.pos
    /\ Decoded /\ ty[1] = "seq" /\ Len(Body) >= 1 /\ Body[1] < 128 =>
          LET f == FirstFailure([i \in 1..Body[1] |-> ty[2]], Body, 1, 1)
          IN  IF f.failed THEN decoded = f.res /\ consumed = f.pos
              ELSE IsOk(decoded) /\ Len(decoded.v) = Body[1] /\ consumed = f.pos

\* TestStruct cut inside its second field, the u32 behind the name
C21_Witness ==
    /\ Decoded
    /\ src = "truncated"
    /\ ty = TestStruct
    /\ Body = <<4, 2, 65, 108, 30, 0>>
    /\ IsErr(decoded, "UnexpectedEof")
    /\ consumed = 4

\* C22: is_serialized is true exactly for an input of at least 5 bytes that
\* starts with 'NANO' and the version byte 1, whatever follows; so it is true
\* for what to_bytes returned and false for a strict prefix of the header.
C22_IsSerialized ==
    pc = "detected" =>
        /\ detected = (/\ Len(input) >= 5
                       /\ SubSeq(input, 1, 4) = <<78, 65, 78, 79>>
                       /\ input[5] = 1)
        /\ src = "encoded" => detected = TRUE
        /\ Len(input) < 5 => detected = FALSE

\* the right magic, the version 99 and a body
C22_Witness ==
    /\ pc = "detected"
    /\ src = "forged"
    /\ input = <<78, 65, 78, 79, 99, 1, 7>>
    /\ detected = FALSE

\* C27 as claimed: from_bytes of a valid encoding with any bytes behind it
\* succeeds and returns the value that was encoded.
C27_TrailingBytes ==
    (pc = "done" /\ src = "extended") => (IsOk(decoded) /\ decoded.v = val)

\* where field i of a tuple or struct starts in the body: behind the count and
\* the encodings of the fields before it
FieldStart(ts, vs, i) == 1 + Len(PartsEnc(SubSeq(ts, 1, i - 1), SubSeq(vs, 1, i - 1)))

\* C30 as claimed: decoding what to_bytes returned, as the type of the value,
\* succeeds with no byte of the body left (remaining() = 0), and the decode of
\* each field of a tuple or struct consumes as many bytes as its encode
\* appended.
C30_ExactConsumption ==
    RoundTrip =>
        /\ IsOk(decoded)
        /\ remaining(body, consumed) = 0
        /\ ty[1] \in {"tuple", "struct"} =>
              \A i \in 1..Len(ty[2]) :
                  Deserialize(ty[2][i], body, FieldStart(ty[2], val, i)).pos
                      = FieldStart(ty[2], val, i) + Len(Enc(ty[2][i], val[i]))

----------------------------------------------------------------------------
(* SpecVarint: varints written to a WriteBuffer and read back from it, as  *)
(* tests::test_varint_encoding does.                                       *)

MaxWrites == 2   \* the number of values written

VarintValues ==
    { Bits(0), Bits(127), Bits(128), Bits(255), Bits(256), Bits(16384), Bits(2097151),
      Pow31, Top64, MaxU64 }

VarInit ==
    /\ overflow_checks \in BOOLEAN
    /\ wbuf = <<>>
    /\ wlog = <<>>
    /\ data = <<>>
    /\ position = 0
    /\ op = "none"
    /\ arg = Zero64
    /\ prev = 0
    /\ last = NoResult
    /\ access = NoAccess
    /\ comp = NoResult
    /\ heap = <<>>
    /\ calls = <<>>
    /\ detected = NoResult
    /\ CodecIdle

WriteVarint ==
    \E v \in VarintValues :
        /\ op = "none"
        /\ Len(wlog) < MaxWrites
        /\ wbuf' = write_varint(wbuf, v)
        /\ wlog' = Append(wlog, [v |-> v, start |-> Len(wbuf), end |-> Len(wbuf')])
        /\ UNCHANGED <<comp, heap, calls, detected, access, overflow_checks, data, position, op, arg, prev, last, codecvars>>

\* ReadBuffer::new(buf.as_slice())
ReaderNew ==
    /\ op = "none"
    /\ data' = wbuf
    /\ position' = 0
    /\ op' = "new"
    /\ UNCHANGED <<comp, heap, calls, detected, access, overflow_checks, wbuf, wlog, arg, prev, last, codecvars>>

VarNext ==
    \/ WriteVarint
    \/ ReaderNew
    \/ ReadVarint

SpecVarint == VarInit /\ [][VarNext]_vars

\* C9: write_varint appends 1 to 10 bytes, the last with the high bit clear and
\* the others with it set, and read_varint over them gives the value back and
\* stops right behind them.
C9_VarintRoundTrip ==
    /\ \A i \in DOMAIN wlog :
          /\ wlog[i].end - wlog[i].start \in 1..Groups
          /\ wlog[i].end <= Len(wbuf)
          /\ wbuf[wlog[i].end] < 128
          /\ \A j \in (wlog[i].start + 1)..(wlog[i].end - 1) : wbuf[j] >= 128
    /\ op = "read_varint" =>
          \A i \in DOMAIN wlog :
              wlog[i].start = prev =>
                  IsOk(last) /\ last.v = wlog[i].v /\ position = wlog[i].end

\* 2^64 - 1, written behind another value, has been read back from its ten bytes
C9_Witness ==
    /\ op = "read_varint"
    /\ Len(wlog) >= 2
    /\ wlog[2].v = MaxU64
    /\ prev = wlog[2].start
    /\ wlog[2].end - wlog[2].start = Groups
    /\ IsOk(last)
    /\ last.v = MaxU64
    /\ position = wlog[2].end

----------------------------------------------------------------------------
(* SpecSeq: a visitor is handed the SeqDeserializer of a Vec<u8> or the     *)
(* MapDeserializer of a HashMap<u8, u16> over bytes it does not control,    *)
(* and pulls elements, or keys and values, until a pull fails.              *)

MaxSeqLen == 3   \* the counts in front are 0..MaxSeqLen, the bytes behind them 0..3 * MaxSeqLen

SeqInputs ==
    {<<k>> \o [i \in 1..n |-> 10 * i] : k \in 0..MaxSeqLen, n \in 0..(3 * MaxSeqLen)}
        \cup {Run(Groups - 1) \o <<1, 5, 6>>, <<128>>, <<>>}

SeqInit ==
    /\ overflow_checks \in BOOLEAN
    /\ data \in SeqInputs
    /\ position = 0
    /\ op = "new"
    /\ arg = Zero64
    /\ prev = 0
    /\ last = NoResult
    /\ wbuf = <<>>
    /\ wlog = <<>>
    /\ access = NoAccess
    /\ comp = NoResult
    /\ heap = <<>>
    /\ calls = <<>>
    /\ detected = NoResult
    /\ CodecIdle

\* the prefix is read and the visitor is handed the access
Begin(kind, name, r) ==
    /\ op = "new"
    /\ access.kind = "none"
    /\ position' = r.pos
    /\ prev' = position
    /\ last' = r.res
    /\ op' = name
    /\ access' = IF IsOk(r.res)
                 THEN [kind |-> kind, len |-> r.res.v, remaining |-> r.res.v, was |-> r.res.v,
                       start |-> r.pos, pulls |-> 0, delivered |-> <<>>, key |-> <<>>,
                       failed |-> FALSE]
                 ELSE access
    /\ UNCHANGED <<comp, heap, calls, detected, overflow_checks, data, arg, wbuf, wlog, codecvars>>

\* deserialize_seq up to visitor.visit_seq
DeserializeSeq == Begin("seq", "deserialize_seq", read_varint(data, position))

\* deserialize_map up to visitor.visit_map
DeserializeMap == Begin("map", "deserialize_map", read_varint(data, position))

\* the access as the pull finds it
Held == [pos |-> position, remaining |-> access.remaining]

\* a pull of the visitor: the first failure ends the visit.  An element, or an
\* entry once its value is there, is delivered; a key waits for its value.
Pull(name, e) ==
    /\ ~access.failed
    /\ position' = e.sa.pos
    /\ prev' = position
    /\ last' = e.res
    /\ op' = name
    /\ access' = [access EXCEPT !.remaining = e.sa.remaining,
                                !.was = access.remaining,
                                !.pulls = IF name # "next_value" /\ e.res # Ok(<<>>) THEN @ + 1 ELSE @,
                                !.delivered = IF ~IsOk(e.res) \/ name = "next_key" THEN @
                                              ELSE IF name = "next_element" THEN @ \o e.res.v
                                              ELSE Append(@, <<access.key[1], e.res.v>>),
                                !.key = IF ~IsOk(e.res) THEN @
                                        ELSE IF name = "next_key" THEN e.res.v
                                        ELSE <<>>,
                                !.failed = ~IsOk(e.res)]
    /\ UNCHANGED <<comp, heap, calls, detected, overflow_checks, data, arg, wbuf, wlog, codecvars>>

\* seq.next_element::<u8>()
NextElement ==
    /\ access.kind = "seq"
    /\ Pull("next_element", next_element_seed(U8, data, Held))

\* map.next_key::<u8>()
NextKey ==
    /\ access.kind = "map"
    /\ access.key = <<>>
    /\ Pull("next_key", next_key_seed(data, Held))

\* map.next_value::<u16>(), after a key
NextValue ==
    /\ access.kind = "map"
    /\ access.key # <<>>
    /\ Pull("next_value", next_value_seed(<<"u16">>, data, Held))

SeqNext ==
    \/ DeserializeSeq
    \/ DeserializeMap
    \/ NextElement
    \/ NextKey
    \/ NextValue

SpecSeq == SeqInit /\ [][SeqNext]_vars

\* C20: the count K is read once, in front; every pull that is not 'no more
\* elements' counts it down by one; what was delivered is at most K elements
\* or entries, taken from the input in its order with nothing skipped and
\* nothing read twice; and with the count at zero a pull says 'no more
\* elements' and leaves the cursor where it is.
C20_Countdown ==
    access.kind # "none" =>
        /\ Add64(access.remaining, Bits(access.pulls)).sum = access.len
        /\ Add64(access.remaining, Bits(access.pulls)).carry = 0
        /\ ~Gt64(Bits(Len(access.delivered)), access.len)
        /\ Len(access.delivered) <= access.pulls
        /\ access.kind = "seq" =>
              /\ access.delivered = SubSeq(data, access.start + 1, access.start + Len(access.delivered))
              /\ position = access.start + Len(access.delivered)
        /\ access.kind = "map" =>
              /\ \A i \in DOMAIN access.delivered :
                    LET at == access.start + (3 * (i - 1))
                    IN  access.delivered[i] = <<data[at + 1], data[at + 2] + (256 * data[at + 3])>>
              /\ position = access.start + (3 * Len(access.delivered)) + Len(access.key)
              /\ access.key # <<>> => access.key[1] = data[position]
        /\ op \in {"next_element", "next_key"} =>
              /\ IsZero64(access.was) <=> last = Ok(<<>>)
              /\ IsZero64(access.was) => position = prev /\ IsZero64(access.remaining)
              /\ ~IsZero64(access.was) => access.remaining = Dec64(access.was)
        /\ op = "next_value" => access.remaining = access.was

\* two elements were delivered, the third pull said 'no more elements' and the
\* byte behind them was left alone
C20_Witness ==
    /\ access.kind = "seq"
    /\ access.len = Bits(2)
    /\ access.delivered = <<10, 20>>
    /\ op = "next_element"
    /\ last = Ok(<<>>)
    /\ position = prev
    /\ position < Len(data)

----------------------------------------------------------------------------
(* SpecConc: to_bytes and from_bytes calls on different threads, each on   *)
(* its own value or input, with their steps interleaved.  to_bytes makes a *)
(* Serializer with a WriteBuffer of its own (Serializer::new), appends the *)
(* body to it byte after byte and returns into_bytes; from_bytes makes a   *)
(* Deserializer over its input and decodes.  MAGIC, VERSION and            *)
(* DEFAULT_BUFFER_SIZE are constants.                                      *)

NumCalls == 2    \* the threads, one call each

Threads == 1..NumCalls

DEFAULT_BUFFER_SIZE == 8192

\* the WriteBuffer that the Serializer of thread i writes: the one it made
buffer_of_shared(i) == 1

buffer_of(i) == i

\* what the threads encode
ConcValues ==
    { Sample(U32, BitsOf(42, 32)), Sample(Str, <<104, 105>>),
      Sample(<<"option", U8>>, <<7>>), Sample(<<"iter", U8>>, <<1>>) }

\* what the threads decode: encodings, and an input with a foreign header
ConcInputs ==
    { [ty |-> U32, input |-> MAGIC \o <<VERSION, 42, 0, 0, 0>>],
      [ty |-> Str, input |-> MAGIC \o <<VERSION, 2, 104, 105>>],
      [ty |-> <<"seq", U8>>, input |-> MAGIC \o <<VERSION, 2, 8>>],
      [ty |-> U8, input |-> <<88, 89, 90, 87, VERSION, 1>>] }

EncodeCall(s) ==
    [kind |-> "encode", ty |-> s.ty, val |-> s.v, input |-> <<>>, pc |-> "start", n |-> 0,
     reader |-> NoResult, result |-> NoResult, overlapped |-> FALSE]

DecodeCall(s) ==
    [kind |-> "decode", ty |-> s.ty, val |-> <<>>, input |-> s.input, pc |-> "start", n |-> 0,
     reader |-> NoResult, result |-> NoResult, overlapped |-> FALSE]

ConcInit ==
    /\ overflow_checks \in BOOLEAN
    /\ calls \in [Threads -> {EncodeCall(s) : s \in ConcValues} \cup {DecodeCall(s) : s \in ConcInputs}]
    /\ heap = [i \in Threads |-> <<>>]
    /\ data = <<>>
    /\ position = 0
    /\ op = "none"
    /\ arg = Zero64
    /\ prev = 0
    /\ last = NoResult
    /\ wbuf = <<>>
    /\ wlog = <<>>
    /\ access = NoAccess
    /\ comp = NoResult
    /\ detected = NoResult
    /\ CodecIdle

\* another call is between its first and its last step
Overlaps(i) == \E j \in Threads \ {i} : calls[j].pc \notin {"start", "returned"}

\* what is left alone by a step of a call
ConcFrame ==
    UNCHANGED <<comp, detected, access, overflow_checks, data, position, op, arg, prev, last, wbuf, wlog,
                codecvars>>

\* the body the value of call i is serialized to, and whether that succeeds
Target(i) == Serialize(calls[i].ty, calls[i].val, <<>>, [k \in 1..MaxKeys |-> k])

\* Serializer::new(): WriteBuffer::with_capacity(DEFAULT_BUFFER_SIZE), empty
SerializerNew(i) ==
    /\ calls[i].kind = "encode"
    /\ calls[i].pc = "start"
    /\ heap' = [heap EXCEPT ![buffer_of(i)] = <<>>]
    /\ calls' = [calls EXCEPT ![i].pc = "serializing", ![i].overlapped = @ \/ Overlaps(i)]
    /\ ConcFrame

\* value.serialize(&mut serializer): the next byte of the body is appended
SerializeByte(i) ==
    /\ calls[i].kind = "encode"
    /\ calls[i].pc = "serializing"
    /\ calls[i].n < Len(Target(i).d)
    /\ heap' = [heap EXCEPT ![buffer_of(i)] = write_u8(@, Target(i).d[calls[i].n + 1])]
    /\ calls' = [calls EXCEPT ![i].n = @ + 1, ![i].overlapped = @ \/ Overlaps(i)]
    /\ ConcFrame

\* value.serialize(..)? has returned: the error, or serializer.into_bytes()
IntoBytes(i) ==
    /\ calls[i].kind = "encode"
    /\ calls[i].pc = "serializing"
    /\ calls[i].n = Len(Target(i).d)
    /\ calls' = [calls EXCEPT ![i].pc = "returned",
                              ![i].result = IF Target(i).ok THEN Ok(into_bytes(heap[buffer_of(i)]))
                                            ELSE Err("Serde"),
                              ![i].overlapped = @ \/ Overlaps(i)]
    /\ UNCHANGED heap
    /\ ConcFrame

\* Deserializer::new(bytes)?
CallDeserializerNew(i) ==
    /\ calls[i].kind = "decode"
    /\ calls[i].pc = "start"
    /\ calls' = [calls EXCEPT ![i].reader = Deserializer_new(calls[i].input),
                              ![i].pc = IF IsOk(Deserializer_new(calls[i].input))
                                        THEN "decoding" ELSE "returned",
                              ![i].result = IF IsOk(Deserializer_new(calls[i].input))
                                            THEN @ ELSE Deserializer_new(calls[i].input),
                              ![i].overlapped = @ \/ Overlaps(i)]
    /\ UNCHANGED heap
    /\ ConcFrame

\* T::deserialize(&mut deserializer)
CallDeserialize(i) ==
    /\ calls[i].kind = "decode"
    /\ calls[i].pc = "decoding"
    /\ calls' = [calls EXCEPT ![i].pc = "returned",
                              ![i].result = Deserialize(calls[i].ty, calls[i].reader.v, 0).res,
                              ![i].overlapped = @ \/ Overlaps(i)]
    /\ UNCHANGED heap
    /\ ConcFrame

ConcNext ==
    \/ \E i \in Threads : SerializerNew(i)
    \/ \E i \in Threads : SerializeByte(i)
    \/ \E i \in Threads : IntoBytes(i)
    \/ \E i \in Threads : CallDeserializerNew(i)
    \/ \E i \in Threads : CallDeserialize(i)

SpecConc == ConcInit /\ [][ConcNext]_vars

\* C24: a call that has returned, whatever the other threads did between its
\* steps, returned what to_bytes or from_bytes returns for its value or input
\* alone.
C24_NoInterference ==
    \A i \in Threads :
        calls[i].pc = "returned" =>
            calls[i].result =
                IF calls[i].kind = "encode"
                THEN to_bytes(calls[i].ty, calls[i].val, [k \in 1..MaxKeys |-> k])
                ELSE from_bytes(calls[i].ty, calls[i].input)

\* two to_bytes calls whose steps were interleaved have both returned
C24_Witness ==
    /\ calls[1].kind = "encode" /\ calls[2].kind = "encode"
    /\ calls[1].pc = "returned" /\ calls[2].pc = "returned"
    /\ calls[1].overlapped /\ calls[2].overlapped
    /\ calls[1].result = Ok(<<78, 65, 78, 79, 1, 42, 0, 0, 0>>)
    /\ calls[2].result = Ok(<<78, 65, 78, 79, 1, 2, 104, 105>>)

----------------------------------------------------------------------------
(* SpecComp: compress and decompress (src/src/compression.rs).  The codecs *)
(* are the crates lz4_flex, zstd and snap; what they write for an input    *)
(* too short to hold a match is fixed by their formats: one run of         *)
(* literals (LZ4, Snappy) or one raw block (ZSTD).  The decoders read the  *)
(* whole of their formats' elements as far as short inputs can hold them.  *)

MaxData == 4    \* the longest input over {0, 7} that is compressed

ErrMsg(e, msg) == [tag |-> "Err", e |-> e, msg |-> msg]

ZSTD_MAGIC == <<40, 181, 47, 253>>
SNAPPY_MAGIC == <<115, 78, 97, 80, 112, 89>>

\* the cargo features a build may have
Features == SUBSET {"compression", "multi-compression"}

\* CompressionFormat, CompressionLevel
Formats == {"LZ4", "ZSTD", "Snappy", "NanoBit"}
Levels == {<<"Fastest">>, <<"Default">>, <<"Best">>, <<"Custom", 1>>, <<"Custom", 22>>}

\* a little-endian number of at most four bytes; 2^30 stands for every number
\* from 2^30 on, which is beyond every length that occurs
LeCapped(bs) ==
    IF Len(bs) = 4 /\ bs[4] >= 64 THEN 2 ^ 30
    ELSE (IF Len(bs) >= 1 THEN bs[1] ELSE 0) + (IF Len(bs) >= 2 THEN 256 * bs[2] ELSE 0)
            + (IF Len(bs) >= 3 THEN 65536 * bs[3] ELSE 0)
            + (IF Len(bs) >= 4 THEN 16777216 * bs[4] ELSE 0)

\* n as u32, little-endian
LeFromLen(n) == <<n % 256, (n \div 256) % 256, (n \div 65536) % 256, (n \div 16777216) % 256>>

\* a match is copied byte after byte, so that it may overlap what it writes;
\* with the offset 0 it reads the zeroed bytes of the output buffer
RECURSIVE CopyMatch(_, _, _)
CopyMatch(o, offset, n) ==
    IF n = 0 THEN o
    ELSE CopyMatch(Append(o, IF offset = 0 THEN 0 ELSE o[(Len(o) + 1) - offset]), offset, n - 1)

\* lz4_flex::compress_prepend_size: the length as u32, then the LZ4 block; an
\* input shorter than 13 bytes is one sequence of literals
compress_prepend_size(d) == LeFromLen(Len(d)) \o <<16 * Len(d)>> \o d

\* the bytes that extend a length of 15 in an LZ4 token
RECURSIVE Lz4Length(_, _, _)
Lz4Length(block, i, n) ==
    IF i > Len(block) THEN [ok |-> FALSE, n |-> n, i |-> i]
    ELSE IF block[i] = 255 THEN Lz4Length(block, i + 1, n + 255)
    ELSE [ok |-> TRUE, n |-> n + block[i], i |-> i + 1]

\* the LZ4 block decoder: token, literals, then offset and match unless the
\* block ends behind the literals.  A strict decoder rejects the offset 0.
RECURSIVE lz4_block(_, _, _, _, _)
lz4_block(block, i, o, size, strict) ==
    IF i > Len(block) THEN Err("ExpectedAnotherByte")
    ELSE
      LET token == block[i]
          lit == IF (token \div 16) = 15 THEN Lz4Length(block, i + 1, 15)
                 ELSE [ok |-> TRUE, n |-> token \div 16, i |-> i + 1]
          o1 == o \o SubSeq(block, lit.i, (lit.i + lit.n) - 1)
          j == lit.i + lit.n
          offset == block[j] + (256 * block[j + 1])
          ml == IF (token % 16) = 15 THEN Lz4Length(block, j + 2, 19)
                ELSE [ok |-> TRUE, n |-> (token % 16) + 4, i |-> j + 2]
      IN  IF ~lit.ok \/ (j - 1) > Len(block) THEN Err("LiteralOutOfBounds")
          ELSE IF (Len(o) + lit.n) > size THEN Err("OutputTooSmall")
          ELSE IF j > Len(block) THEN Ok(o1)
          ELSE IF (j + 1) > Len(block) \/ ~ml.ok THEN Err("ExpectedAnotherByte")
          ELSE IF offset > Len(o1) \/ (strict /\ offset = 0) THEN Err("OffsetOutOfBounds")
          ELSE IF (Len(o1) + ml.n) > size THEN Err("OutputTooSmall")
          ELSE lz4_block(block, ml.i, CopyMatch(o1, offset, ml.n), size, strict)

\* lz4_flex::decompress_size_prepended; a strict decoder rejects an output
\* shorter than the size, another one truncates to what it decoded
decompress_size_prepended(bytes, strict) ==
    IF Len(bytes) < 4 THEN Err("ExpectedAnotherByte")
    ELSE LET size == LeCapped(SubSeq(bytes, 1, 4))
             r == lz4_block(SubSeq(bytes, 5, Len(bytes)), 1, <<>>, size, strict)
         IN  IF IsOk(r) /\ strict /\ Len(r.v) # size THEN Err("UncompressedSizeDiffers") ELSE r

compress_lz4(feat, d) ==
    IF "compression" \in feat THEN Ok(compress_prepend_size(d))
    ELSE ErrMsg("Serde", "LZ4 compression not available")

decompress_lz4(feat, strict, bytes) ==
    IF "compression" \notin feat THEN ErrMsg("Serde", "LZ4 decompression not available")
    ELSE IF IsOk(decompress_size_prepended(bytes, strict))
         THEN decompress_size_prepended(bytes, strict)
         ELSE ErrMsg("InvalidFormat", "LZ4 decompression failed")

\* compress_zstd: the level handed to zstd::encode_all
compression_level(level) ==
    CASE level[1] = "Fastest" -> 1
      [] level[1] = "Default" -> 3
      [] level[1] = "Best" -> 22
      [] level[1] = "Custom" -> level[2]

\* the window log zstd takes at a level
window_log(l) == CASE l = 1 -> 19 [] l = 3 -> 21 [] l = 22 -> 27

\* zstd::encode_all: the magic number, the frame header (descriptor and
\* window descriptor) and, for a short input, one last raw block
encode_all(d, l) ==
    ZSTD_MAGIC \o <<0, 8 * (window_log(l) - 10)>>
        \o <<((8 * Len(d)) + 1) % 256, ((8 * Len(d)) + 1) \div 256, 0>> \o d

\* zstd::decode_all of a frame of one raw block; everything else that the
\* inputs here can be is no frame
decode_all(bytes) ==
    IF Len(bytes) < 9 \/ SubSeq(bytes, 1, 4) # ZSTD_MAGIC \/ bytes[5] # 0
    THEN Err("Io")
    ELSE LET header == LeCapped(SubSeq(bytes, 7, 9))
         IN  IF (header % 8) # 1 \/ Len(bytes) # (9 + (header \div 8)) THEN Err("Io")
             ELSE Ok(SubSeq(bytes, 10, Len(bytes)))

compress_zstd(feat, d, level) ==
    IF "multi-compression" \in feat THEN Ok(encode_all(d, compression_level(level)))
    ELSE ErrMsg("Serde", "ZSTD compression not available")

decompress_zstd(feat, bytes) ==
    IF "multi-compression" \notin feat THEN ErrMsg("Serde", "ZSTD decompression not available")
    ELSE IF IsOk(decode_all(bytes)) THEN decode_all(bytes)
         ELSE ErrMsg("InvalidFormat", "ZSTD decompression failed")

\* snap::raw::Encoder::compress_vec: the length as a varint and, for an input
\* shorter than 17 bytes, one literal
compress_vec(d) == IF d = <<>> THEN <<0>> ELSE <<Len(d), 4 * (Len(d) - 1)>> \o d

\* the length header of a Snappy block: a varint of at most 32 bits
RECURSIVE SnapHeader(_, _, _)
SnapHeader(bytes, i, n) ==
    IF i > Len(bytes) \/ i > 5 THEN [ok |-> FALSE, n |-> n, i |-> i]
    ELSE IF i = 5 /\ (bytes[i] % 128) > 0
         THEN [ok |-> (bytes[i] < 16), n |-> 2 ^ 30, i |-> i + 1]
    ELSE IF bytes[i] >= 128 THEN SnapHeader(bytes, i + 1, n + ((bytes[i] % 128) * (128 ^ (i - 1))))
    ELSE [ok |-> TRUE, n |-> n + (bytes[i] * (128 ^ (i - 1))), i |-> i + 1]

\* the elements of a Snappy block: literals and copies with offsets of one,
\* two and four bytes, into an output of exactly the length of the header
RECURSIVE SnapElements(_, _, _, _)
SnapElements(bytes, i, o, size) ==
    IF i > Len(bytes) THEN (IF Len(o) = size THEN Ok(o) ELSE Err("HeaderMismatch"))
    ELSE
      LET tag == bytes[i]
          kind == tag % 4
          extra == IF kind = 0 THEN (IF (tag \div 4) < 60 THEN 0 ELSE (tag \div 4) - 59)
                   ELSE IF kind = 1 THEN 1 ELSE IF kind = 2 THEN 2 ELSE 4
          field == LeCapped(SubSeq(bytes, i + 1, i + extra))
          n == IF kind = 0 THEN (IF extra = 0 THEN tag \div 4 ELSE field) + 1
               ELSE IF kind = 1 THEN 4 + ((tag \div 4) % 8) ELSE (tag \div 4) + 1
          offset == IF kind = 1 THEN (256 * (tag \div 32)) + field ELSE field
          from == (i + extra) + 1
      IN  IF (i + extra) > Len(bytes) THEN Err("CopyRead")
          ELSE IF (Len(o) + n) > size THEN Err("Write")
          ELSE IF kind = 0
               THEN IF ((from + n) - 1) > Len(bytes) THEN Err("Literal")
                    ELSE SnapElements(bytes, from + n, o \o SubSeq(bytes, from, (from + n) - 1), size)
          ELSE IF offset = 0 \/ offset > Len(o) THEN Err("Offset")
          ELSE SnapElements(bytes, from, CopyMatch(o, offset, n), size)

\* snap::raw::Decoder::decompress_vec
decompress_vec(bytes) ==
    IF bytes = <<>> THEN Err("Empty")
    ELSE IF ~SnapHeader(bytes, 1, 0).ok THEN Err("Header")
    ELSE SnapElements(bytes, SnapHeader(bytes, 1, 0).i, <<>>, SnapHeader(bytes, 1, 0).n)

compress_snappy(feat, d) ==
    IF "multi-compression" \in feat THEN Ok(compress_vec(d))
    ELSE ErrMsg("Serde", "Snappy compression not available")

decompress_snappy(feat, bytes) ==
    IF "multi-compression" \notin feat THEN ErrMsg("Serde", "Snappy decompression not available")
    ELSE IF IsOk(decompress_vec(bytes)) THEN decompress_vec(bytes)
         ELSE ErrMsg("InvalidFormat", "Snappy decompression failed")

\* the first 8 bytes as u64 are over 0 and under 1000 times the length
is_likely_lz4(bytes) ==
    IF Len(bytes) < 8 THEN FALSE
    ELSE /\ SubSeq(bytes, 5, 8) = <<0, 0, 0, 0>>
         /\ LeCapped(SubSeq(bytes, 1, 4)) > 0
         /\ LeCapped(SubSeq(bytes, 1, 4)) < (Len(bytes) * 1000)

compress(feat, d, format, level) ==
    CASE format = "LZ4" -> compress_lz4(feat, d)
      [] format = "ZSTD" -> compress_zstd(feat, d, level)
      [] format = "Snappy" -> compress_snappy(feat, d)
      [] format = "NanoBit" -> ErrMsg("Serde", "NanoBit compression not yet implemented")

\* decompress: what a detector picks is returned as it is; with no detector
\* the decoders of the build are tried in the order zstd, snappy, lz4
decompress(feat, strict, bytes) ==
    IF bytes = <<>> THEN ErrMsg("InvalidFormat", "Empty compressed data")
    ELSE IF Len(bytes) >= 4 /\ SubSeq(bytes, 1, 4) = ZSTD_MAGIC THEN decompress_zstd(feat, bytes)
    ELSE IF Len(bytes) >= 6 /\ SubSeq(bytes, 1, 6) = SNAPPY_MAGIC THEN decompress_snappy(feat, bytes)
    ELSE IF Len(bytes) >= 4 /\ is_likely_lz4(bytes) THEN decompress_lz4(feat, strict, bytes)
    ELSE IF "multi-compression" \in feat /\ IsOk(decompress_zstd(feat, bytes))
         THEN decompress_zstd(feat, bytes)
    ELSE IF "multi-compression" \in feat /\ IsOk(decompress_snappy(feat, bytes))
         THEN decompress_snappy(feat, bytes)
    ELSE IF "compression" \in feat /\ IsOk(decompress_lz4(feat, strict, bytes))
         THEN decompress_lz4(feat, strict, bytes)
    ELSE ErrMsg("InvalidFormat", "Unable to decompress: unknown format")

\* the sequences over {0, 7} of at most n bytes
RECURSIVE Words(_)
Words(n) == IF n = 0 THEN {<<>>} ELSE Words(n - 1) \cup {Append(w, b) : w \in Words(n - 1), b \in {0, 7}}

\* what is compressed: short words, six zero bytes, "Hello"
CompInputs == Words(MaxData) \cup {<<0, 0, 0, 0, 0, 0>>, <<72, 101, 108, 108, 111>>}

\* what somebody else hands to decompress: nothing, bytes of no format, a
\* ZSTD magic number alone, a Snappy stream identifier, a plausible LZ4 size
\* before a block that is none
ForeignData ==
    { <<>>, <<1>>, <<255, 255, 255>>, ZSTD_MAGIC, SNAPPY_MAGIC \o <<0>>,
      <<9, 0, 0, 0, 0, 0, 0, 0, 255>> }

CompInit ==
    /\ overflow_checks \in BOOLEAN
    /\ \E f \in Features, s \in BOOLEAN, d \in CompInputs, fmt \in Formats, l \in Levels :
          comp = [feat |-> f, strict |-> s, d |-> d, format |-> fmt, level |-> l, pc |-> "start",
                  compressed |-> NoResult, given |-> <<>>, result |-> NoResult]
    /\ calls = <<>>
    /\ heap = <<>>
    /\ data = <<>>
    /\ position = 0
    /\ op = "none"
    /\ arg = Zero64
    /\ prev = 0
    /\ last = NoResult
    /\ wbuf = <<>>
    /\ wlog = <<>>
    /\ access = NoAccess
    /\ detected = NoResult
    /\ CodecIdle

CompFrame == UNCHANGED <<heap, calls, detected, access, bufvars, codecvars>>

\* compress(data, format, level)
Compress ==
    /\ comp.pc = "start"
    /\ comp' = [comp EXCEPT !.pc = "compressed",
                            !.compressed = compress(comp.feat, comp.d, comp.format, comp.level)]
    /\ CompFrame

\* decompress(&compressed)
Decompress ==
    /\ comp.pc = "compressed"
    /\ IsOk(comp.compressed)
    /\ comp' = [comp EXCEPT !.pc = "decompressed", !.given = comp.compressed.v,
                            !.result = decompress(comp.feat, comp.strict, comp.compressed.v)]
    /\ CompFrame

\* decompress of bytes that compress did not write
DecompressForeign ==
    /\ comp.pc = "start"
    /\ \E x \in ForeignData :
          comp' = [comp EXCEPT !.pc = "rejected", !.given = x,
                               !.result = decompress(comp.feat, comp.strict, x)]
    /\ CompFrame

CompNext == Compress \/ Decompress \/ DecompressForeign

SpecComp == CompInit /\ [][CompNext]_vars

\* C25: decompress gives back what compress was given, for LZ4, ZSTD and
\* Snappy at every level: the detection hands the output of compress for a
\* format to the decoder of that format, whatever its leading bytes are.
C25_CompressRoundTrip ==
    (comp.pc = "decompressed" /\ comp.format \in {"LZ4", "ZSTD", "Snappy"})
        => comp.result = Ok(comp.d)

\* no decoder of the build accepts the bytes
NoDecoderAccepts(feat, strict, bytes) ==
    /\ ~IsOk(decompress_zstd(feat, bytes))
    /\ ~IsOk(decompress_snappy(feat, bytes))
    /\ ~IsOk(decompress_lz4(feat, strict, bytes))

\* C26: decompress of no bytes fails with InvalidFormat, and decompress of
\* bytes that no decoder accepts fails with InvalidFormat "Unable to
\* decompress: unknown format", also when a detector matched and its decoder
\* rejected the bytes.
C26_UnknownFormat ==
    comp.pc \in {"decompressed", "rejected"} =>
        /\ comp.given = <<>> => (~IsOk(comp.result) /\ comp.result.e = "InvalidFormat")
        /\ (comp.given # <<>> /\ NoDecoderAccepts(comp.feat, comp.strict, comp.given)) =>
              comp.result = ErrMsg("InvalidFormat", "Unable to decompress: unknown format")

====
